---- MODULE Spec2Model ----
(***************************************************************************)
(* Result checking of sportorg (models/result/result_checker.py).          *)
(* Codes of punches and controls are Python strings; they are modelled as  *)
(* sequences of one-character strings so that the parsing the code does    *)
(* (split, strip, isdigit, int, slicing) is computed and not assumed.      *)
(* Times are OTime values, modelled by their millisecond count.            *)
(***************************************************************************)
EXTENDS Integers, Sequences, FiniteSets, TLC

\* ------------------------------------------------------------------------
\* Bounds of the model
\* ------------------------------------------------------------------------
MaxSplits == 2

\* ------------------------------------------------------------------------
\* Python string primitives on sequences of characters
\* ------------------------------------------------------------------------
Digits == {"0", "1", "2", "3", "4", "5", "6", "7", "8", "9"}

DigitVal(ch) ==
    CASE ch = "0" -> 0 [] ch = "1" -> 1 [] ch = "2" -> 2 [] ch = "3" -> 3
      [] ch = "4" -> 4 [] ch = "5" -> 5 [] ch = "6" -> 6 [] ch = "7" -> 7
      [] ch = "8" -> 8 [] ch = "9" -> 9

\* str.isdigit(): non-empty and every character a digit
IsDigit(s) == Len(s) > 0 /\ \A i \in 1..Len(s) : s[i] \in Digits

\* ch in s
HasChar(s, ch) == \E i \in 1..Len(s) : s[i] = ch

\* x in list
InList(x, list) == \E i \in 1..Len(list) : list[i] = x

\* int(s) of a digit string; int() of anything else raises ValueError
IntOk(s) == IsDigit(s)

RECURSIVE ToInt(_)
ToInt(s) ==
    IF Len(s) = 0 THEN 0
    ELSE 10 * ToInt(SubSeq(s, 1, Len(s) - 1)) + DigitVal(s[Len(s)])

\* s[:-1] and s[-1]
AllButLast(s) == IF Len(s) = 0 THEN << >> ELSE SubSeq(s, 1, Len(s) - 1)
LastChar(s) == s[Len(s)]

\* index of the first occurrence of ch in s, 0 when absent
FirstIndex(s, ch) ==
    IF HasChar(s, ch)
    THEN CHOOSE i \in 1..Len(s) : s[i] = ch /\ \A j \in 1..(i - 1) : s[j] # ch
    ELSE 0

\* s.split(ch)
RECURSIVE SplitOn(_, _)
SplitOn(s, ch) ==
    LET i == FirstIndex(s, ch) IN
    IF i = 0 THEN << s >>
    ELSE << SubSeq(s, 1, i - 1) >> \o SplitOn(SubSeq(s, i + 1, Len(s)), ch)

\* s.strip(chars)
RECURSIVE LStrip(_, _)
LStrip(s, chars) ==
    IF Len(s) > 0 /\ s[1] \in chars THEN LStrip(Tail(s), chars) ELSE s

RECURSIVE RStrip(_, _)
RStrip(s, chars) ==
    IF Len(s) > 0 /\ s[Len(s)] \in chars THEN RStrip(AllButLast(s), chars) ELSE s

Strip(s, chars) == RStrip(LStrip(s, chars), chars)

Whitespace == {" "}

\* a remove that drops every occurrence
RemoveFirst_EveryOccurrence(list, x) == SelectSeq(list, LAMBDA y : y # x)

\* list.remove(x): drop the first occurrence
RemoveFirst(list, x) ==
    LET i == CHOOSE k \in 1..Len(list) : list[k] = x /\ \A j \in 1..(k - 1) : list[j] # x
    IN SubSeq(list, 1, i - 1) \o SubSeq(list, i + 1, Len(list))

Min(a, b) == IF a < b THEN a ELSE b
Max(a, b) == IF a > b THEN a ELSE b

\* ------------------------------------------------------------------------
\* Values of the program
\* ------------------------------------------------------------------------
\* ResultStatus members used by the checker
StatusOK == "OK"
StatusMissingPunch == "MISSING_PUNCH"
StatusOvertime == "OVERTIME"
StatusMissPenaltyLap == "MISS_PENALTY_LAP"
StatusMultiDayIssue == "MULTI_DAY_ISSUE"
StatusDisqualified == "DISQUALIFIED"
StatusDidNotStart == "DID_NOT_START"
StatusDidNotFinish == "DID_NOT_FINISH"

AllStatuses ==
    {StatusOK, StatusMissingPunch, StatusOvertime, StatusMissPenaltyLap,
     StatusMultiDayIssue, StatusDisqualified, StatusDidNotStart, StatusDidNotFinish}

\* the statuses on which checking() returns at once
\* GuardStatuses without MULTI_DAY_ISSUE
GuardStatuses_NoMultiDay ==
    {StatusOK, StatusMissingPunch, StatusOvertime, StatusMissPenaltyLap}

GuardStatuses ==
    {StatusOK, StatusMissingPunch, StatusOvertime, StatusMissPenaltyLap,
     StatusMultiDayIssue}

\* "no object": person None, group None, find_course() returning None
None == [none |-> TRUE]

\* defaults of race().get_setting(key, default), in milliseconds or points
DefaultPenaltyTime == 60000
DefaultCreditCp == 250
DefaultMinutePenalty == 1
DefaultFixedScore == 1

\* ------------------------------------------------------------------------
\* Control.get_number_code(): the code before a bracket when it is a number,
\* "0" for every wildcard
\* ------------------------------------------------------------------------
get_number_code(code) ==
    LET head == SplitOn(code, "(")[1] IN
    IF IsDigit(head) THEN head ELSE << "0" >>

\* ------------------------------------------------------------------------
\* Penalty calculator
\* ------------------------------------------------------------------------
RECURSIVE AppendAlternatives(_, _, _)
AppendAlternatives(ret, alts, correct) ==
    IF Len(alts) = 0 THEN ret
    ELSE LET cp == Strip(Strip(Head(alts), {")"}), Whitespace)
             next == IF cp # correct /\ IsDigit(cp) /\ ~InList(cp, ret)
                     THEN Append(ret, cp) ELSE ret
         IN AppendAlternatives(next, Tail(alts), correct)

RECURSIVE IncorrectListFrom(_, _)
IncorrectListFrom(ret, controls) ==
    IF Len(controls) = 0 THEN ret
    ELSE LET code_str == Head(controls).code
             parts == SplitOn(code_str, "(")
             correct == Strip(parts[1], Whitespace)
             next == IF Len(code_str) > 0 /\ HasChar(code_str, "(") /\ IsDigit(correct)
                     THEN AppendAlternatives(ret, SplitOn(parts[2], ","), correct)
                     ELSE ret
         IN IncorrectListFrom(next, Tail(controls))

get_marked_route_incorrect_list(controls) == IncorrectListFrom(<< >>, controls)

\* the loop over origin_array of the classic model: what is left of user_array
RECURSIVE ClassicConsume(_, _)
ClassicConsume(user_array, origin_array) ==
    IF Len(origin_array) = 0 THEN user_array
    ELSE LET i == Head(origin_array)
             next == IF i = << "0" >> /\ Len(user_array) > 0 THEN Tail(user_array)
                     ELSE IF InList(i, user_array) THEN RemoveFirst(user_array, i)
                     ELSE user_array
         IN ClassicConsume(next, Tail(origin_array))

RECURSIVE CountPunched(_, _)
CountPunched(incorrect_array, user_array) ==
    IF Len(incorrect_array) = 0 THEN 0
    ELSE (IF InList(Head(incorrect_array), user_array) THEN 1 ELSE 0)
         + CountPunched(Tail(incorrect_array), user_array)

\* penalty_calculation that runs the classic consumption next to the choice model
penalty_calculation_ClassicAlways(splits, controls, check_existence) ==
    LET user_array == [k \in 1..Len(splits) |-> splits[k].code]
        origin_array == [k \in 1..Len(controls) |-> get_number_code(controls[k].code)]
        res0 == IF check_existence /\ Len(user_array) < Len(origin_array)
                THEN Len(origin_array) - Len(user_array) ELSE 0
        incorrect_array == get_marked_route_incorrect_list(controls)
    IN res0 + CountPunched(incorrect_array, user_array)
            + Len(ClassicConsume(user_array, origin_array))

penalty_calculation(splits, controls, check_existence) ==
    LET user_array == [k \in 1..Len(splits) |-> splits[k].code]
        origin_array == [k \in 1..Len(controls) |-> get_number_code(controls[k].code)]
        res0 == IF check_existence /\ Len(user_array) < Len(origin_array)
                THEN Len(origin_array) - Len(user_array) ELSE 0
        incorrect_array == get_marked_route_incorrect_list(controls)
    IN IF Len(incorrect_array) > 0
       THEN res0 + CountPunched(incorrect_array, user_array)
       ELSE res0 + Len(ClassicConsume(user_array, origin_array))

RECURSIVE CountNoPenalty(_)
CountNoPenalty(splits) ==
    IF Len(splits) = 0 THEN 0
    ELSE (IF ~Head(splits).has_penalty THEN 1 ELSE 0) + CountNoPenalty(Tail(splits))

\* penalty_calculation_free_order without the floor of zero
penalty_calculation_free_order_NoFloor(splits, controls) ==
    Len(controls) - CountNoPenalty(splits)

penalty_calculation_free_order(splits, controls) ==
    Max(Len(controls) - CountNoPenalty(splits), 0)

\* one control of penalty_calculation_trailo: TRUE when some punch of the
\* control's number carries another answer letter
TrailoMismatch(splits, control) ==
    \E k \in 1..Len(splits) :
        /\ ToInt(AllButLast(splits[k].code)) = ToInt(AllButLast(control.code))
        /\ LastChar(control.code) # "T"
        /\ LastChar(splits[k].code) # LastChar(control.code)

RECURSIVE penalty_calculation_trailo(_, _, _)
penalty_calculation_trailo(splits, controls, penalty_time) ==
    IF Len(controls) = 0 THEN 0
    ELSE (IF ToInt(AllButLast(Head(controls).code)) >= 100
             /\ TrailoMismatch(splits, Head(controls))
          THEN penalty_time ELSE 0)
         + penalty_calculation_trailo(splits, Tail(controls), penalty_time)

\* detach_penalty_laps2: [regular, penalty]
detach_penalty_laps2(splits, lap_station) ==
    IF Len(splits) = 0 THEN [regular |-> << >>, penalty |-> << >>]
    ELSE [regular |-> SelectSeq(splits,
                        LAMBDA p : p.is_correct \/ ToInt(p.code) # lap_station),
          penalty |-> SelectSeq(splits,
                        LAMBDA p : ToInt(p.code) = lap_station /\ ~p.is_correct)]

\* credit_calculation
RECURSIVE CreditFrom(_, _, _)
CreditFrom(splits, credit_cp, idx) ==
    IF idx > Len(splits) THEN 0
    ELSE (IF ToInt(splits[idx].code) = credit_cp /\ idx > 1
          THEN splits[idx].time - splits[idx - 1].time ELSE 0)
         + CreditFrom(splits, credit_cp, idx + 1)

credit_calculation(splits, credit_cp) == CreditFrom(splits, credit_cp, 1)

\* ------------------------------------------------------------------------
\* Result time (Result.get_result_otime): finish minus start, less the
\* credited time
\* ------------------------------------------------------------------------
get_result_otime(result) == result.finish_time - result.start_time - result.credit_time

\* OTime.to_sec()
to_sec(msec) == msec \div 1000

\* the late finish test shared by the score routines: OTime() < max_time < user_time
IsOverMaxTime(result) ==
    /\ result.person # None
    /\ result.group # None
    /\ 0 < result.group.max_time
    /\ result.group.max_time < get_result_otime(result)

\* ------------------------------------------------------------------------
\* Score calculator
\* ------------------------------------------------------------------------
\* find(race().controls, code=...): the control's record, None when absent
FindControl(race_controls, code) ==
    IF \E k \in 1..Len(race_controls) : race_controls[k].code = code
    THEN race_controls[CHOOSE k \in 1..Len(race_controls) :
              /\ race_controls[k].code = code
              /\ \A j \in 1..(k - 1) : race_controls[j].code # code]
    ELSE None

get_control_score(st, code) ==
    LET control == FindControl(st.controls, code) IN
    IF control # None /\ control.score # 0 THEN control.score
    ELSE IF st.score_mode = "fixed" THEN st.fixed_score_value
    ELSE ToInt(code) \div 10

RECURSIVE RogaineFrom(_, _, _, _, _)
RogaineFrom(st, splits, allow_duplicates, user_array, score) ==
    IF Len(splits) = 0 THEN score
    ELSE LET code == Head(splits).code IN
         IF ~InList(code, user_array) \/ allow_duplicates
         THEN RogaineFrom(st, Tail(splits), allow_duplicates,
                          Append(user_array, code), score + get_control_score(st, code))
         ELSE RogaineFrom(st, Tail(splits), allow_duplicates, user_array, score)

calculate_rogaine_score(st, result, allow_duplicates) ==
    RogaineFrom(st, result.splits, allow_duplicates, << >>, 0)

\* calculate_rogaine_penalty that counts full minutes only
calculate_rogaine_penalty_FullMinutes(result, score, penalty_step) ==
    LET penalty ==
            IF IsOverMaxTime(result)
            THEN (to_sec(get_result_otime(result) - result.group.max_time) \div 60)
                 * penalty_step
            ELSE 0
    IN Min(penalty, score)

calculate_rogaine_penalty(result, score, penalty_step) ==
    LET penalty ==
            IF IsOverMaxTime(result)
            THEN LET time_diff == get_result_otime(result) - result.group.max_time
                     seconds_diff == to_sec(time_diff)
                     minutes_diff == (seconds_diff + 59) \div 60
                 IN minutes_diff * penalty_step
            ELSE 0
    IN Min(penalty, score)

\* the while loop of calculate_scores_ardf for one punch; c is the loop state
\* [idx |-> index_in_order, user |-> user_array, ret |-> ret] (1-based idx)
RECURSIVE ArdfWhile(_, _, _, _)
ArdfWhile(code, correct_order, initial_index, c) ==
    IF ~(c.idx <= Len(correct_order)) THEN c
    ELSE
      LET current_cp == correct_order[c.idx]
          taken == [idx |-> initial_index + 1,
                    user |-> Append(c.user, code),
                    ret |-> c.ret + 1]
          skipped == [c EXCEPT !.idx = c.idx + 1]
      IN
      IF HasChar(current_cp, "?")
      THEN IF HasChar(current_cp, "(") /\ HasChar(current_cp, ")")
           THEN LET options == SplitOn(Strip(current_cp, {"?", "(", ")"}), ",") IN
                IF InList(code, options) /\ ~InList(code, c.user)
                THEN taken
                ELSE ArdfWhile(code, correct_order, initial_index, skipped)
           ELSE IF ~InList(code, c.user)
                THEN taken
                ELSE ArdfWhile(code, correct_order, initial_index, skipped)
      ELSE IF code = current_cp
           THEN IF ~InList(code, c.user)
                THEN [idx |-> c.idx + 1, user |-> Append(c.user, code), ret |-> c.ret + 1]
                ELSE skipped
           ELSE [c EXCEPT !.idx = initial_index]

RECURSIVE ArdfFor(_, _, _)
ArdfFor(splits, correct_order, c) ==
    IF Len(splits) = 0 THEN c
    ELSE ArdfFor(Tail(splits), correct_order,
                 ArdfWhile(Head(splits).code, correct_order, c.idx, c))

\* the score counted by the loop of calculate_scores_ardf
ArdfCounted(result, course) ==
    LET correct_order == [k \in 1..Len(course.controls) |-> course.controls[k].code]
    IN ArdfFor(result.splits, correct_order, [idx |-> 1, user |-> << >>, ret |-> 0]).ret

\* calculate_scores_ardf that tests the time before it looks for the course
calculate_scores_ardf_TimeFirst(result, course) ==
    IF IsOverMaxTime(result) THEN [score |-> 0, status |-> StatusDisqualified]
    ELSE IF course = None THEN [score |-> 0, status |-> result.status]
    ELSE [score |-> ArdfCounted(result, course), status |-> result.status]

\* calculate_scores_ardf: [score, status]
calculate_scores_ardf(result, course) ==
    IF course = None THEN [score |-> 0, status |-> result.status]
    ELSE IF IsOverMaxTime(result)
         THEN [score |-> 0, status |-> StatusDisqualified]
         ELSE [score |-> ArdfCounted(result, course), status |-> result.status]

TrailoAnswered(splits, control) ==
    \E k \in 1..Len(splits) :
        /\ ToInt(AllButLast(splits[k].code)) = ToInt(AllButLast(control.code))
        /\ LastChar(splits[k].code) = LastChar(control.code)

RECURSIVE TrailoScoreFrom(_, _)
TrailoScoreFrom(splits, controls) ==
    IF Len(controls) = 0 THEN 0
    ELSE (IF ToInt(AllButLast(Head(controls).code)) < 100
             /\ TrailoAnswered(splits, Head(controls))
          THEN 1 ELSE 0)
         + TrailoScoreFrom(splits, Tail(controls))

calculate_scores_trailo(result, course) ==
    IF course = None THEN 0 ELSE TrailoScoreFrom(result.splits, course.controls)

\* the time of the first punch of a control's number whose letter is T, else 0
TrailoTimeOf(splits, control) ==
    LET hit(k) == /\ ToInt(AllButLast(splits[k].code)) = ToInt(AllButLast(control.code))
                  /\ LastChar(splits[k].code) = "T"
    IN IF \E k \in 1..Len(splits) : hit(k)
       THEN splits[CHOOSE k \in 1..Len(splits) :
                       hit(k) /\ \A j \in 1..(k - 1) : ~hit(j)].time
       ELSE 0

RECURSIVE TrailoTimeFrom(_, _)
TrailoTimeFrom(splits, controls) ==
    IF Len(controls) = 0 THEN 0
    ELSE (IF LastChar(Head(controls).code) = "T"
          THEN TrailoTimeOf(splits, Head(controls)) ELSE 0)
         + TrailoTimeFrom(splits, Tail(controls))

calculate_time_trailo(result, course) ==
    IF course = None THEN 0 ELSE TrailoTimeFrom(result.splits, course.controls)

\* ------------------------------------------------------------------------
\* Result.check(course) of the standard mode: the classic matching with the
\* existence test finds no discrepancy, or the discrepancies are left to the
\* penalty accounting of a marked route
\* ------------------------------------------------------------------------
ResultCheck(st, result, course) ==
    IF course = None THEN TRUE
    ELSE \/ st.marked_route_mode # "off"
         \/ penalty_calculation(result.splits, course.controls, TRUE) = 0

\* ------------------------------------------------------------------------
\* ResultChecker: the mode handlers.  st is the race's settings record, the
\* course of a result is what race().find_course(result) returns for it.
\* ------------------------------------------------------------------------
_get_course(result) == IF result.person # None THEN result.course ELSE None

_process_ardf_mode(result) ==
    LET r == calculate_scores_ardf(result, result.course) IN
    [result EXCEPT !.scores_ardf = r.score, !.status = r.status]

_process_trailo_mode(result) ==
    LET scores == calculate_scores_trailo(result, result.course)
        penalty == calculate_rogaine_penalty(result, scores, 1)
        time == calculate_time_trailo(result, result.course)
    IN [result EXCEPT !.trailo_score_penalty = penalty,
                      !.trailo_score = scores - penalty,
                      !.trailo_time = time]

_process_scores_mode(st, result) ==
    LET score == calculate_rogaine_score(st, result, st.scores_allow_duplicates)
        penalty == calculate_rogaine_penalty(result, score, st.scores_minute_penalty)
    IN [result EXCEPT !.rogaine_score = score - penalty,
                      !.rogaine_penalty = penalty]

\* _process_standard_mode that goes on to the course test with marked_route_dont_dsq
ProcessStandardMode_NoDontDsq(st, result) ==
    IF _get_course(result) = None
    THEN (IF result.group # None THEN ~result.group.is_any_course ELSE TRUE)
    ELSE IF result.group.is_any_course THEN TRUE
    ELSE ResultCheck(st, result, _get_course(result))

\* _process_standard_mode that checks the course of an any-course group too
ProcessStandardMode_NoAnyCourse(st, result) ==
    IF st.marked_route_dont_dsq THEN TRUE
    ELSE IF _get_course(result) = None
         THEN (IF result.group # None THEN ~result.group.is_any_course ELSE TRUE)
         ELSE ResultCheck(st, result, _get_course(result))

\* _process_standard_mode that, without a course, passes the any-course groups only
ProcessStandardMode_NoCourseFails(st, result) ==
    IF st.marked_route_dont_dsq THEN TRUE
    ELSE IF _get_course(result) = None
         THEN (IF result.group # None THEN result.group.is_any_course ELSE TRUE)
         ELSE IF result.group.is_any_course THEN TRUE
         ELSE ResultCheck(st, result, _get_course(result))

\* the value _process_standard_mode returns
_process_standard_mode(st, result) ==
    IF st.marked_route_dont_dsq THEN TRUE
    ELSE IF _get_course(result) = None
         THEN (IF result.group # None THEN ~result.group.is_any_course ELSE TRUE)
         ELSE IF result.group.is_any_course THEN TRUE
         ELSE ResultCheck(st, result, _get_course(result))

\* check_result whose table of handlers lacks the scores mode
CheckResult_NoScoresHandler(st, result) ==
    IF result.person = None \/ result.group = None
    THEN [result |-> result, flag |-> TRUE]
    ELSE CASE st.processing_mode = "ardf" ->
                [result |-> _process_ardf_mode(result), flag |-> TRUE]
           [] st.processing_mode = "trailo" ->
                [result |-> _process_trailo_mode(result), flag |-> TRUE]
           [] OTHER ->
                [result |-> result, flag |-> _process_standard_mode(st, result)]

\* check_result: [result, flag]
check_result(st, result) ==
    IF result.person = None \/ result.group = None
    THEN [result |-> result, flag |-> TRUE]
    ELSE CASE st.processing_mode = "ardf" ->
                [result |-> _process_ardf_mode(result), flag |-> TRUE]
           [] st.processing_mode = "trailo" ->
                [result |-> _process_trailo_mode(result), flag |-> TRUE]
           [] st.processing_mode = "scores" ->
                [result |-> _process_scores_mode(st, result), flag |-> TRUE]
           [] OTHER ->
                [result |-> result, flag |-> _process_standard_mode(st, result)]

\* ------------------------------------------------------------------------
\* Penalty and credit time
\* ------------------------------------------------------------------------
\* str.lower() on the letters group names are written with
LowerChar(ch) ==
    CASE ch = "M" -> "m" [] ch = "I" -> "i" [] ch = "N" -> "n"
      [] ch = "L" -> "l" [] ch = "A" -> "a" [] ch = "P" -> "p"
      [] OTHER -> ch

Lower(s) == [k \in 1..Len(s) |-> LowerChar(s[k])]

\* s.find(sub) > -1
Contains(s, sub) ==
    \E k \in 1..(Len(s) - Len(sub) + 1) : SubSeq(s, k, k + Len(sub) - 1) = sub

_calculate_trailo_penalty(st, result, course) ==
    [result EXCEPT !.penalty_time =
        penalty_calculation_trailo(result.splits, course.controls,
                                   st.marked_route_penalty_time)]

_calculate_standard_penalty(st, result, course) ==
    LET name == Lower(result.group.name)
        mode1 == IF Contains(name, << "_", "m", "i", "n" >>) THEN "time"
                 ELSE st.marked_route_mode
        mode == IF Contains(name, << "_", "l", "a", "p" >>) THEN "laps" ELSE mode1
        splits == IF mode = "laps" /\ st.marked_route_if_station_check
                  THEN detach_penalty_laps2(result.splits,
                           st.marked_route_penalty_lap_station_code).regular
                  ELSE result.splits
        penalty0 == IF st.marked_route_dont_dsq
                    THEN penalty_calculation_free_order(splits, course.controls)
                    ELSE penalty_calculation(splits, course.controls, TRUE)
        penalty == IF st.marked_route_max_penalty_by_cp
                   THEN Min(Len(course.controls), penalty0) ELSE penalty0
    IN [result EXCEPT !.splits = splits,
                      !.penalty_laps = IF mode = "laps" THEN penalty ELSE 0,
                      !.penalty_time = IF mode = "time"
                                       THEN st.marked_route_penalty_time * penalty
                                       ELSE 0]

calculate_penalty(st, result) ==
    IF st.marked_route_mode = "off" THEN result
    ELSE IF result.person = None \/ result.group = None THEN result
    ELSE IF result.course = None THEN result
    ELSE IF st.processing_mode = "trailo"
         THEN _calculate_trailo_penalty(st, result, result.course)
         ELSE _calculate_standard_penalty(st, result, result.course)

\* int(split.code) succeeds for every punch
SplitCodesAreInts(splits) == \A k \in 1..Len(splits) : IntOk(splits[k].code)

\* calculate_credit_time raises ValueError at int(split.code)
CreditRaises(st, result) ==
    st.credit_time_enabled /\ ~SplitCodesAreInts(result.splits)

calculate_credit_time(st, result) ==
    IF ~st.credit_time_enabled THEN result
    ELSE [result EXCEPT !.credit_time =
              credit_calculation(result.splits, st.credit_time_cp)]

\* ------------------------------------------------------------------------
\* Status of the result
\* ------------------------------------------------------------------------
LapsChecked(st) == st.marked_route_mode = "laps" /\ st.marked_route_if_station_check

\* check_penalty_laps raises ValueError at int(punch.code)
PenaltyLapsRaises(st, result) ==
    LapsChecked(st) /\ ~SplitCodesAreInts(result.splits)

check_penalty_laps(st, result) ==
    IF LapsChecked(st)
    THEN ~(Len(detach_penalty_laps2(result.splits,
                  st.marked_route_penalty_lap_station_code).penalty)
           < result.penalty_laps)
    ELSE TRUE

\* _check_overtime without the test of a zero max_time
CheckOvertime_NoZeroTest(st, result) ==
    IF result.person = None \/ result.group = None THEN result
    ELSE LET result_time == get_result_otime(result)
             max_time == result.group.max_time
         IN IF st.processing_mode \in {"time", "ardf"}
            THEN (IF result_time > max_time
                  THEN [result EXCEPT !.status = StatusOvertime] ELSE result)
            ELSE IF st.processing_mode = "scores"
                 THEN (IF st.scores_max_overrun_time > 0
                          /\ result_time > max_time + st.scores_max_overrun_time
                       THEN [result EXCEPT !.status = StatusOvertime] ELSE result)
            ELSE result

\* _check_overtime that applies an overrun window of zero too
CheckOvertime_ZeroWindow(st, result) ==
    IF result.person = None \/ result.group = None THEN result
    ELSE LET result_time == get_result_otime(result)
             max_time == result.group.max_time
         IN IF max_time = 0 THEN result
            ELSE IF st.processing_mode \in {"time", "ardf"}
                 THEN (IF result_time > max_time
                       THEN [result EXCEPT !.status = StatusOvertime] ELSE result)
            ELSE IF st.processing_mode = "scores"
                 THEN (IF result_time > max_time + st.scores_max_overrun_time
                       THEN [result EXCEPT !.status = StatusOvertime] ELSE result)
            ELSE result

_check_overtime(st, result) ==
    IF result.person = None \/ result.group = None THEN result
    ELSE LET result_time == get_result_otime(result)
             max_time == result.group.max_time
         IN IF max_time = 0 THEN result
            ELSE IF st.processing_mode \in {"time", "ardf"}
                 THEN (IF result_time > max_time
                       THEN [result EXCEPT !.status = StatusOvertime] ELSE result)
            ELSE IF st.processing_mode = "scores"
                 THEN (IF st.scores_max_overrun_time > 0
                          /\ result_time > max_time + st.scores_max_overrun_time
                       THEN [result EXCEPT !.status = StatusOvertime] ELSE result)
            ELSE result

\* _validate_result_status that runs the overtime test in every case
ValidateResultStatus_OvertimeAlways(st, result, check_flag) ==
    _check_overtime(st,
        IF ~check_flag THEN [result EXCEPT !.status = StatusMissingPunch]
        ELSE IF ~check_penalty_laps(st, result)
             THEN [result EXCEPT !.status = StatusMissPenaltyLap]
             ELSE result)

_validate_result_status(st, result, check_flag) ==
    IF ~check_flag THEN [result EXCEPT !.status = StatusMissingPunch]
    ELSE IF ~check_penalty_laps(st, result)
         THEN [result EXCEPT !.status = StatusMissPenaltyLap]
         ELSE _check_overtime(st, result)

\* StatusComments().get_status_default_comment(status): the comment of a status
get_status_default_comment(status) == << "comment", status >>

\* ------------------------------------------------------------------------
\* ResultChecker.checking(result): [result, raised, ran]; raised names the
\* exception that leaves the call, ran tells that the guards were passed
\* ------------------------------------------------------------------------
\* lines 108-111: the comment of the status found
SetStatusComment(result) ==
    [result |-> [result EXCEPT !.status_comment =
                                   get_status_default_comment(result.status)],
     raised |-> "none", ran |-> TRUE]

\* line 105: the status, unless int(punch.code) raises in check_penalty_laps
ValidateStep(st, result, check_flag) ==
    IF check_flag /\ PenaltyLapsRaises(st, result)
    THEN [result |-> result, raised |-> "ValueError", ran |-> TRUE]
    ELSE SetStatusComment(_validate_result_status(st, result, check_flag))

\* line 102: the credit time, unless int(split.code) raises
CreditStep(st, result, check_flag) ==
    IF CreditRaises(st, result)
    THEN [result |-> result, raised |-> "ValueError", ran |-> TRUE]
    ELSE ValidateStep(st, calculate_credit_time(st, result), check_flag)

\* line 101: the penalty, on what check_result returned
PenaltyStep(st, checked) ==
    CreditStep(st, calculate_penalty(st, checked.result), checked.flag)

\* the body of checking() behind its two guards (lines 97-111)
RunChecks(st, result) ==
    PenaltyStep(st, check_result(st, [result EXCEPT !.status = StatusOK]))

\* checking that resets the status before it tests the person
Checking_ResetBeforePersonTest(st, result) ==
    IF result.status \in GuardStatuses
    THEN [result |-> result,
          raised |-> IF result.person = None THEN "ResultCheckerException" ELSE "none",
          ran |-> FALSE]
    ELSE IF result.person = None
    THEN [result |-> [result EXCEPT !.status = StatusOK],
          raised |-> "ResultCheckerException", ran |-> FALSE]
    ELSE RunChecks(st, result)

checking(st, result) ==
    IF result.person = None
    THEN [result |-> result, raised |-> "ResultCheckerException", ran |-> FALSE]
    ELSE IF result.status \in GuardStatuses
    THEN [result |-> result, raised |-> "none", ran |-> FALSE]
    ELSE RunChecks(st, result)

\* ------------------------------------------------------------------------
\* The race: its settings, its results, and the last call made on it
\* ------------------------------------------------------------------------
VARIABLES settings, results, last

vars == << settings, results, last >>

\* codes on cards and courses
C31 == << "3", "1" >>
C99 == << "9", "9" >>
C250 == << "2", "5", "0" >>
C31Choice == << "3", "1", "(", "3", "1", ",", "9", "9", ")" >>
C99Optional == << "9", "9", "?", "(", "9", "9", ",", "2", "5", "0", ")" >>
C31A == << "3", "1", "A" >>
C31B == << "3", "1", "B" >>
C101A == << "1", "0", "1", "A" >>
C101T == << "1", "0", "1", "T" >>

\* times in milliseconds: the k-th punch of a card, the finish of a result (the
\* start is 0), the max_time of a group, the overrun window of the scores mode
PunchTime(k) == k * 30000
FinishTimes == {100000, 120000, 200000}
MaxTimes == {0, 100000}
OverrunTimes == {0, 50000}

\* race().controls: the controls that carry a score of their own
RaceControls == << [code |-> C31, score |-> 3] >>

Control(code) == [code |-> code]
Course(codes) == [controls |-> [k \in 1..Len(codes) |-> Control(codes[k])]]

\* the punches a card can hold in the modes with numeric codes, and in Trail-O
NumericPunches ==
    {[code |-> C31, is_correct |-> TRUE, has_penalty |-> FALSE],
     [code |-> C99, is_correct |-> FALSE, has_penalty |-> TRUE],
     [code |-> C250, is_correct |-> TRUE, has_penalty |-> FALSE]}

TrailoPunches ==
    {[code |-> C31A, is_correct |-> TRUE, has_penalty |-> FALSE],
     [code |-> C31B, is_correct |-> FALSE, has_penalty |-> TRUE],
     [code |-> C101T, is_correct |-> TRUE, has_penalty |-> FALSE]}

PunchesOf(mode) == IF mode = "trailo" THEN TrailoPunches ELSE NumericPunches

CoursesOf(mode) ==
    CASE mode = "trailo" -> {None, Course(<< C31A, C101A >>)}
      [] mode = "ardf" -> {None, Course(<< C31, C99Optional >>)}
      [] OTHER -> {None, Course(<< C31, C250 >>), Course(<< C31Choice >>)}

\* a card of n punches, the k-th punched at PunchTime(k)
Cards(mode) ==
    UNION {{[k \in 1..n |-> [code |-> f[k].code, time |-> PunchTime(k),
                             is_correct |-> f[k].is_correct,
                             has_penalty |-> f[k].has_penalty]] :
               f \in [1..n -> PunchesOf(mode)]} : n \in 0..MaxSplits}

GroupNames == {<< "M", "2", "1" >>}

\* the competitor a result is linked to
Person == [bib |-> 1]

Groups ==
    {None} \cup
    [name : GroupNames, max_time : MaxTimes, is_any_course : BOOLEAN]

NewResult(person, group, course, splits, finish_time, status) ==
    [person |-> person, group |-> group, course |-> course, splits |-> splits,
     start_time |-> 0, finish_time |-> finish_time,
     status |-> status, status_comment |-> << >>,
     penalty_time |-> 0, penalty_laps |-> 0, credit_time |-> 0,
     rogaine_score |-> 0, rogaine_penalty |-> 0, scores_ardf |-> 0,
     trailo_score |-> 0, trailo_score_penalty |-> 0, trailo_time |-> 0]

\* a card that was read and is assigned to nobody
UnassignedResult == NewResult(None, None, None, << >>, 100000, StatusOK)

MarkedRouteSettings ==
    {[mode |-> "off", dont_dsq |-> FALSE, station_check |-> FALSE]}
    \cup [mode : {"time"}, dont_dsq : BOOLEAN, station_check : {FALSE}]
    \cup [mode : {"laps"}, dont_dsq : BOOLEAN, station_check : BOOLEAN]

SettingsOf(mode, mr, credit, overrun) ==
    [processing_mode |-> mode,
     marked_route_mode |-> mr.mode,
     marked_route_dont_dsq |-> mr.dont_dsq,
     marked_route_if_station_check |-> mr.station_check,
     marked_route_penalty_lap_station_code |-> 99,
     marked_route_max_penalty_by_cp |-> FALSE,
     marked_route_penalty_time |-> DefaultPenaltyTime,
     credit_time_enabled |-> credit,
     credit_time_cp |-> DefaultCreditCp,
     scores_max_overrun_time |-> overrun,
     scores_allow_duplicates |-> FALSE,
     scores_minute_penalty |-> DefaultMinutePenalty,
     score_mode |-> "fixed",
     fixed_score_value |-> DefaultFixedScore,
     controls |-> RaceControls]

ProcessingModes == {"time", "scores", "ardf", "trailo"}

\* Settings and fields that the code of a processing mode never reads keep one
\* value: the overrun window outside scores, marked_route_dont_dsq in Trail-O,
\* is_any_course outside the time mode, the finish time without a max_time.
InitWith(statuses) ==
    \E mode \in ProcessingModes, mr \in MarkedRouteSettings, credit \in BOOLEAN,
       overrun \in OverrunTimes,
       person \in {None, Person}, group \in Groups,
       status \in statuses, finish_time \in FinishTimes :
      \E course \in CoursesOf(mode), splits \in Cards(mode) :
        /\ overrun # 0 => mode = "scores"
        /\ mode = "trailo" => ~mr.dont_dsq
        /\ person = None => group = None /\ course = None
        /\ (group # None /\ mode # "time") => ~group.is_any_course
        /\ (group = None \/ group.max_time = 0) => finish_time = 100000
        /\ settings = SettingsOf(mode, mr, credit, overrun)
        /\ results = << NewResult(person, group, course, splits, finish_time, status),
                        UnassignedResult >>
        /\ last = [op |-> "init", idx |-> 0, raised |-> "none", ran |-> FALSE,
                   repeat |-> FALSE, before |-> << >>]

\* the statuses of a result that was checked or settled by hand
FinalStatuses ==
    {StatusOK, StatusMissingPunch, StatusOvertime, StatusMissPenaltyLap,
     StatusMultiDayIssue}

\* results that await their check
Init == InitWith(AllStatuses \ FinalStatuses)

\* results whose status is final already
InitFinal == InitWith(FinalStatuses)

\* ResultChecker.checking(results[i]), called by the owner of the race
Checking(i) ==
    \E out \in {checking(settings, results[i])} :
    /\ results' = [results EXCEPT ![i] = out.result]
    /\ last' = [op |-> "checking", idx |-> i, raised |-> out.raised, ran |-> out.ran,
                repeat |-> last.op = "checking" /\ last.idx = i,
                before |-> results]
    /\ UNCHANGED settings

\* the loop of check_all from result i on: [results, raised]
RECURSIVE CheckAllFrom(_, _, _), CheckAllStep(_, _, _, _)
CheckAllFrom(st, rs, i) ==
    IF i > Len(rs) THEN [results |-> rs, raised |-> "none"]
    ELSE IF rs[i].person = None THEN CheckAllFrom(st, rs, i + 1)
    ELSE CheckAllStep(st, rs, i, checking(st, rs[i]))

\* one turn of the loop: the exception of checking() leaves check_all
CheckAllStep(st, rs, i, out) ==
    IF out.raised # "none"
    THEN [results |-> [rs EXCEPT ![i] = out.result], raised |-> out.raised]
    ELSE CheckAllFrom(st, [rs EXCEPT ![i] = out.result], i + 1)

\* ResultChecker.check_all()
CheckAll ==
    \E out \in {CheckAllFrom(settings, results, 1)} :
    /\ results' = out.results
    /\ last' = [op |-> "check_all", idx |-> 0, raised |-> out.raised, ran |-> FALSE,
                repeat |-> FALSE, before |-> results]
    /\ UNCHANGED settings

Next ==
    \/ \E i \in 1..Len(results) : Checking(i)
    \/ CheckAll

Spec == Init /\ [][Next]_vars

SpecFinal == InitFinal /\ [][Next]_vars

TypeOK ==
    /\ settings.processing_mode \in ProcessingModes
    /\ \A i \in 1..Len(results) : results[i].status \in AllStatuses

\* ------------------------------------------------------------------------
\* Properties
\* ------------------------------------------------------------------------
\* the result the last call was made on, before and after the call
Pre == last.before[last.idx]
Post == results[last.idx]

\* the last call was checking() and it ran the checks to their end
Checked == last.op = "checking" /\ last.ran /\ last.raised = "none"

\* the fields the checks compute
Computed(r) ==
    << r.status, r.penalty_time, r.penalty_laps, r.credit_time, r.rogaine_score,
       r.rogaine_penalty, r.scores_ardf, r.trailo_score, r.trailo_score_penalty,
       r.trailo_time >>

\* C1: a second call of checking on a result, right after a first one, leaves
\* status, penalties, credit time and scores as the first call left them.
C1_SecondCallKeepsFields ==
    (last.op = "checking" /\ last.repeat /\ Pre.person # None)
        => Computed(Post) = Computed(Pre)

\* C2: checking a result without a person raises ResultCheckerException and
\* leaves the result as it was; check_all never raises it and leaves every
\* result without a person as it was.
C2_NoPersonRaisesUnchanged ==
    /\ (last.op = "checking" /\ Pre.person = None)
           => last.raised = "ResultCheckerException" /\ results = last.before
    /\ last.op = "check_all"
           => /\ last.raised # "ResultCheckerException"
              /\ \A i \in 1..Len(results) :
                     last.before[i].person = None => results[i] = last.before[i]

\* a result without a person that holds punches and awaits its check was checked
C2_Witness ==
    /\ last.op = "checking"
    /\ last.idx = 1
    /\ last.raised = "ResultCheckerException"
    /\ Len(Post.splits) > 0
    /\ Post.status = StatusDisqualified

\* C3: checking a result whose status is OK, MISSING_PUNCH, OVERTIME,
\* MISS_PENALTY_LAP or MULTI_DAY_ISSUE changes nothing on the result.
C3_FinalStatusIsKept ==
    (last.op = "checking" /\ Pre.status \in FinalStatuses) => results = last.before

\* a linked result with status MULTI_DAY_ISSUE, a group and punches was checked
C3_Witness ==
    /\ last.op = "checking"
    /\ last.raised = "none"
    /\ Pre.person # None
    /\ Pre.group # None
    /\ Pre.status = StatusMultiDayIssue
    /\ Len(Pre.splits) > 0

\* the last call checked a result of a competitor in a group, in the given mode
CheckedIn(mode) ==
    Checked /\ settings.processing_mode = mode /\ Pre.group # None

\* the course check of the last call failed
CourseCheckFailed == ~check_result(settings, [Pre EXCEPT !.status = StatusOK]).flag

\* the penalty laps run on the checked card are fewer than the laps computed
PenaltyLapMismatch == ~check_penalty_laps(settings, Post)

\* the time of the checked result
Elapsed == get_result_otime(Post)

\* C4: in time mode the status of a checked result is MISSING_PUNCH when the
\* course check failed; else MISS_PENALTY_LAP when the penalty laps mismatch;
\* else OVERTIME or OK as the overtime test alone decides.
C4_StatusResolutionOrder ==
    CheckedIn("time") =>
        Post.status =
            IF CourseCheckFailed THEN StatusMissingPunch
            ELSE IF PenaltyLapMismatch THEN StatusMissPenaltyLap
            ELSE IF Pre.group.max_time # 0 /\ Elapsed > Pre.group.max_time
                 THEN StatusOvertime
            ELSE StatusOK

\* a result that failed the course check and is over max_time was checked
C4_Witness ==
    /\ CheckedIn("time")
    /\ CourseCheckFailed
    /\ Pre.course # None
    /\ Pre.group.max_time # 0
    /\ Elapsed > Pre.group.max_time
    /\ Post.status = StatusMissingPunch

\* C5: with a max_time of zero no call sets the status OVERTIME, in any
\* processing mode.
C5_NoOvertimeWithoutMaxTime ==
    \A i \in 1..Len(last.before) :
        (/\ last.before[i].group # None
         /\ last.before[i].group.max_time = 0
         /\ last.before[i].status # StatusOvertime)
            => results[i].status # StatusOvertime

\* a result of a group without max_time and with a positive time was checked
C5_Witness ==
    /\ Checked
    /\ Pre.group # None
    /\ Pre.group.max_time = 0
    /\ Elapsed > 0
    /\ settings.processing_mode = "scores"
    /\ settings.scores_max_overrun_time > 0

\* C6 as stated: in scores mode with max_time > 0 a checked result gets
\* OVERTIME exactly when its time exceeds max_time plus the overrun window,
\* for every window >= 0.
C6_OvertimeBeyondGrace ==
    (CheckedIn("scores") /\ Pre.group.max_time > 0) =>
        (Post.status = StatusOvertime
            <=> Elapsed > Pre.group.max_time + settings.scores_max_overrun_time)

\* C6 amended: in scores mode with max_time > 0 a checked result gets
\* OVERTIME exactly when the overrun window is greater than zero, its time
\* exceeds max_time plus the window and the penalty-lap test passed; with a
\* window of zero no result gets OVERTIME.
C6_OvertimeBeyondPositiveGrace ==
    (CheckedIn("scores") /\ Pre.group.max_time > 0) =>
        (Post.status = StatusOvertime
            <=> /\ settings.scores_max_overrun_time > 0
                /\ Elapsed > Pre.group.max_time + settings.scores_max_overrun_time
                /\ ~PenaltyLapMismatch)

\* a result over max_time plus a positive window was checked in scores mode
C6_Witness ==
    /\ CheckedIn("scores")
    /\ Pre.group.max_time > 0
    /\ settings.scores_max_overrun_time > 0
    /\ Elapsed > Pre.group.max_time + settings.scores_max_overrun_time
    /\ Post.status = StatusOvertime

C8_DontDsqNeverMissingPunch ==
    (CheckedIn("time") /\ settings.marked_route_dont_dsq)
        => Post.status # StatusMissingPunch

\* with marked_route_dont_dsq an any-course result without a course was checked
C8_Witness ==
    /\ CheckedIn("time")
    /\ settings.marked_route_dont_dsq
    /\ Pre.course = None
    /\ Pre.group.is_any_course
    /\ Len(Pre.splits) > 0

NoCourseForPlainGroup ==
    /\ last.op = "checking"
    /\ last.ran
    /\ settings.processing_mode = "time"
    /\ ~settings.marked_route_dont_dsq
    /\ Pre.group # None
    /\ Pre.course = None
    /\ ~Pre.group.is_any_course

MaxPunches == 3
MaxControls == 2

C41 == << "4", "1" >>
C131 == << "1", "3", "1" >>
C0 == << "0" >>
CStar == << "*" >>
C31Or131 == << "3", "1", "(", "3", "1", ",", "1", "3", "1", ")" >>
C41Or131 == << "4", "1", "(", "4", "1", ",", " ", "1", "3", "1", ")" >>

\* the punches of a marked-route card: 131 is the wrong flag of a choice
MarkedRoutePunches ==
    {[code |-> C31, is_correct |-> TRUE, has_penalty |-> FALSE],
     [code |-> C41, is_correct |-> TRUE, has_penalty |-> FALSE],
     [code |-> C131, is_correct |-> FALSE, has_penalty |-> TRUE]}

MarkedRouteCards ==
    UNION {{[k \in 1..n |-> [code |-> f[k].code, time |-> PunchTime(k),
                             is_correct |-> f[k].is_correct,
                             has_penalty |-> f[k].has_penalty]] :
               f \in [1..n -> MarkedRoutePunches]} : n \in 0..MaxPunches}

\* plain controls, zero and wildcard controls, choice controls
MarkedRouteControlCodes == {C31, C41, C0, CStar, C31Or131, C41Or131}

MarkedRouteCourses ==
    UNION {{Course(codes) : codes \in [1..n -> MarkedRouteControlCodes]} :
              n \in 0..MaxControls}

InitPenalty ==
    \E course \in MarkedRouteCourses, splits \in MarkedRouteCards :
        /\ settings = SettingsOf("time",
                          [mode |-> "time", dont_dsq |-> FALSE, station_check |-> FALSE],
                          FALSE, 0)
        /\ results = << NewResult(Person, None, course, splits, 100000, StatusOK) >>
        /\ last = [op |-> "init"]

\* ResultChecker.penalty_calculation(splits, controls, check_existence)
PenaltyCalculation(check_existence) ==
    /\ last' = [op |-> "penalty_calculation", check_existence |-> check_existence,
                value |-> penalty_calculation(results[1].splits,
                                              results[1].course.controls,
                                              check_existence)]
    /\ UNCHANGED << settings, results >>

\* ResultChecker.penalty_calculation_free_order(splits, controls)
PenaltyCalculationFreeOrder ==
    /\ last' = [op |-> "penalty_calculation_free_order",
                value |-> penalty_calculation_free_order(results[1].splits,
                                                         results[1].course.controls)]
    /\ UNCHANGED << settings, results >>

NextPenalty ==
    \/ \E check_existence \in BOOLEAN : PenaltyCalculation(check_existence)
    \/ PenaltyCalculationFreeOrder

SpecPenalty == InitPenalty /\ [][NextPenalty]_vars

\* the arguments of the last call: the punch codes and the course controls
UserCodes == [k \in 1..Len(results[1].splits) |-> results[1].splits[k].code]
CourseControls == results[1].course.controls
CourseCodes == [k \in 1..Len(CourseControls) |-> CourseControls[k].code]

\* the controls missing on a card that holds fewer punches than the course
Shortfall ==
    IF last.check_existence /\ Len(UserCodes) < Len(CourseCodes)
    THEN Len(CourseCodes) - Len(UserCodes) ELSE 0

CountOf(x, seq) == Cardinality({k \in 1..Len(seq) : seq[k] = x})

\* size of the multiset intersection of two lists
RECURSIVE CommonOver(_, _, _)
CommonOver(codes, a, b) ==
    IF codes = {} THEN 0
    ELSE LET c == CHOOSE x \in codes : TRUE
         IN Min(CountOf(c, a), CountOf(c, b)) + CommonOver(codes \ {c}, a, b)

CommonCount(a, b) == CommonOver({a[k] : k \in 1..Len(a)}, a, b)

\* every control is a plain number other than "0"
PlainCourse == \A k \in 1..Len(CourseCodes) : IsDigit(CourseCodes[k]) /\ CourseCodes[k] # C0

\* C11: for a course of plain control codes penalty_calculation returns the
\* number of punches less the size of the multiset intersection of punch codes
\* and course codes, plus the shortfall of punches when check_existence is set.
C11_ClassicPenaltyIsMultisetDifference ==
    (last.op = "penalty_calculation" /\ PlainCourse) =>
        last.value = Len(UserCodes) - CommonCount(UserCodes, CourseCodes) + Shortfall

\* a card with a duplicate of a course control and a foreign code was counted
C11_Witness ==
    /\ last.op = "penalty_calculation"
    /\ PlainCourse
    /\ CourseCodes = << C31, C41 >>
    /\ UserCodes = << C31, C31, C131 >>
    /\ last.value = 2

\* the orders a list can be put in
PermutationsOf(seq) ==
    {[k \in 1..Len(seq) |-> seq[p[k]]] :
        p \in {q \in [1..Len(seq) -> 1..Len(seq)] :
                  \A i, j \in 1..Len(seq) : q[i] = q[j] => i = j}}

\* C12: penalty_calculation returns the same penalty for every order of the
\* punches of the card, for plain, zero and choice controls, with and without
\* check_existence.
C12_PenaltyIgnoresPunchOrder ==
    last.op = "penalty_calculation" =>
        \A other \in PermutationsOf(results[1].splits) :
            penalty_calculation(other, CourseControls, last.check_existence) = last.value

\* the codes a choice control lists besides its correct code
IncorrectAlternativesOf(code) ==
    LET parts == SplitOn(code, "(")
        correct == Strip(parts[1], Whitespace)
        listed == SplitOn(parts[2], ",")
        alts == {Strip(Strip(listed[j], {")"}), Whitespace) : j \in 1..Len(listed)}
    IN IF IsDigit(correct) THEN {cp \in alts : IsDigit(cp) /\ cp # correct} ELSE {}

IncorrectAlternatives ==
    UNION {IncorrectAlternativesOf(CourseCodes[k]) :
              k \in {j \in 1..Len(CourseCodes) : HasChar(CourseCodes[j], "(")}}

\* C13: when the course holds a choice control, penalty_calculation returns
\* the shortfall of punches (with check_existence) plus one point for each
\* distinct incorrect alternative of a choice control found among the punches,
\* and nothing for any other punch.
C13_ChoicePenaltyCountsWrongAlternativesOnce ==
    (last.op = "penalty_calculation" /\ IncorrectAlternatives # {}) =>
        last.value =
            Shortfall + Cardinality({cp \in IncorrectAlternatives : InList(cp, UserCodes)})

\* two choice controls share the wrong flag 131, punched twice next to a
\* duplicate of a correct code
C13_Witness ==
    /\ last.op = "penalty_calculation"
    /\ CourseCodes = << C31Or131, C41Or131 >>
    /\ UserCodes = << C131, C31, C131 >>
    /\ last.value = 1

\* C14: penalty_calculation_free_order returns max(0, controls - punches
\* without the has_penalty flag); it is never negative.
C14_FreeOrderCountsShortfallOnly ==
    last.op = "penalty_calculation_free_order" =>
        /\ last.value >= 0
        /\ last.value =
               Max(0, Len(CourseControls)
                      - Cardinality({k \in 1..Len(results[1].splits) :
                                        ~results[1].splits[k].has_penalty}))

\* more punches without a penalty than controls: nothing to pay
C14_Witness ==
    /\ last.op = "penalty_calculation_free_order"
    /\ Len(CourseControls) = 1
    /\ Len(results[1].splits) = 3
    /\ \A k \in 1..3 : ~results[1].splits[k].has_penalty
    /\ last.value = 0

\* ------------------------------------------------------------------------
\* The score calculators called on their own: the result is results[1], its
\* course is what find_course returns for it
\* ------------------------------------------------------------------------
C10 == << "1", "0" >>
C20 == << "2", "0" >>
C30 == << "3", "0" >>
C120 == << "1", "2", "0" >>
C20Optional == << "2", "0", "?", "(", "2", "0", ",", "1", "2", "0", ")" >>
C31T == << "3", "1", "T" >>

\* finishes up to, just over and minutes over a max_time of 100 s
ScoreFinishTimes == {90000, 100000, 101000, 160000, 161000, 220000}
ArdfFinishTimes == {90000, 161000}

\* the score and the step calculate_rogaine_penalty is called with
RogaineScores == {0, 1, 2, 3}
PenaltySteps == {0, 1, 2}

ScoreGroups == {None} \cup [name : GroupNames, max_time : MaxTimes, is_any_course : {FALSE}]

PunchCards(punches) ==
    UNION {{[k \in 1..n |-> [code |-> f[k], time |-> PunchTime(k),
                             is_correct |-> TRUE, has_penalty |-> FALSE]] :
               f \in [1..n -> punches]} : n \in 0..MaxPunches}

ArdfCourses == {None, Course(<< C10, C20Optional, C30 >>)}
ArdfCards == PunchCards({C10, C20, C120, C30})

TrailoControlCodes == {C31A, C31T, C101A, C101T}
TrailoCourses ==
    {None} \cup
    UNION {{Course(codes) : codes \in [1..n -> TrailoControlCodes]} : n \in 1..MaxControls}
TrailoCards == PunchCards({C31A, C31B, C31T, C101T})

ScoreSettings(mode) ==
    SettingsOf(mode, [mode |-> "off", dont_dsq |-> FALSE, station_check |-> FALSE],
               FALSE, 0)

InitScores ==
    /\ \/ \E splits \in Cards("scores"), group \in ScoreGroups,
             finish_time \in ScoreFinishTimes :
            /\ settings = ScoreSettings("scores")
            /\ results = << NewResult(Person, group, None, splits, finish_time, StatusOK) >>
       \/ \E splits \in ArdfCards, course \in ArdfCourses, group \in ScoreGroups,
             finish_time \in ArdfFinishTimes,
             status \in {StatusOK, StatusMissingPunch} :
            /\ settings = ScoreSettings("ardf")
            /\ results = << NewResult(Person, group, course, splits, finish_time, status) >>
       \/ \E splits \in TrailoCards, course \in TrailoCourses :
            /\ settings = ScoreSettings("trailo")
            /\ results = << NewResult(Person, None, course, splits, 100000, StatusOK) >>
    /\ last = [op |-> "init"]

\* ResultChecker.calculate_rogaine_score(result, allow_duplicates)
CalculateRogaineScore ==
    /\ settings.processing_mode = "scores"
    /\ last' = [op |-> "calculate_rogaine_score", before |-> results,
                value |-> calculate_rogaine_score(settings, results[1],
                                                  settings.scores_allow_duplicates)]
    /\ UNCHANGED << settings, results >>

\* ResultChecker.calculate_rogaine_penalty(result, score, penalty_step)
CalculateRogainePenalty(score, penalty_step) ==
    /\ settings.processing_mode = "scores"
    /\ last' = [op |-> "calculate_rogaine_penalty", before |-> results,
                score |-> score, penalty_step |-> penalty_step,
                value |-> calculate_rogaine_penalty(results[1], score, penalty_step)]
    /\ UNCHANGED << settings, results >>

\* ResultChecker.calculate_scores_ardf(result): the status is set in place
CalculateScoresArdf ==
    /\ settings.processing_mode = "ardf"
    /\ \E out \in {calculate_scores_ardf(results[1], results[1].course)} :
        /\ results' = [results EXCEPT ![1].status = out.status]
        /\ last' = [op |-> "calculate_scores_ardf", before |-> results,
                    value |-> out.score]
    /\ UNCHANGED settings

\* ResultChecker.calculate_scores_trailo(result)
CalculateScoresTrailo ==
    /\ settings.processing_mode = "trailo"
    /\ last' = [op |-> "calculate_scores_trailo", before |-> results,
                value |-> calculate_scores_trailo(results[1], results[1].course)]
    /\ UNCHANGED << settings, results >>

NextScores ==
    \/ CalculateRogaineScore
    \/ \E score \in RogaineScores, penalty_step \in PenaltySteps :
           CalculateRogainePenalty(score, penalty_step)
    \/ CalculateScoresArdf
    \/ CalculateScoresTrailo

SpecScores == InitScores /\ [][NextScores]_vars

\* the result handed to the last call, as it was before the call
Given == last.before[1]

\* the group of the result sets a max_time and the elapsed time exceeds it
LateFinish ==
    /\ Given.group # None
    /\ Given.group.max_time > 0
    /\ get_result_otime(Given) > Given.group.max_time

\* whole seconds over max_time
OverrunSeconds == to_sec(get_result_otime(Given) - Given.group.max_time)

\* ceil(a / b) for a >= 0, b > 0
CeilDiv(a, b) == CHOOSE n \in 0..a : n * b >= a /\ (n - 1) * b < a

\* C15: for a late finish calculate_rogaine_penalty returns
\* min(score, ceil(overrun_seconds / 60) * penalty_step), else 0; the score
\* less the penalty is never negative (score >= 0, penalty_step >= 0).
C15_RogainePenaltyPerStartedMinute ==
    last.op = "calculate_rogaine_penalty" =>
        /\ last.value = IF LateFinish
                        THEN Min(last.score, CeilDiv(OverrunSeconds, 60) * last.penalty_step)
                        ELSE 0
        /\ last.score - last.value >= 0

\* 61 seconds late with two points a minute: two started minutes, capped at the score
C15_Witness ==
    /\ last.op = "calculate_rogaine_penalty"
    /\ LateFinish
    /\ OverrunSeconds = 61
    /\ last.penalty_step = 2
    /\ last.score = 3
    /\ last.value = 3

\* the codes punched, in card order
PunchedCodes == [k \in 1..Len(Given.splits) |-> Given.splits[k].code]

\* C16: on the course 10, 20?(20,120), 30 without a late finish the ARDF score
\* is 2 for the punches 10, 30 and 3 for the punches 10, x, 30 with x any
\* member of the option set, 20 as well as 120.
C16_ArdfOptionalControl ==
    (/\ last.op = "calculate_scores_ardf"
     /\ Given.course = Course(<< C10, C20Optional, C30 >>)
     /\ ~LateFinish) =>
        /\ PunchedCodes = << C10, C30 >> => last.value = 2
        /\ PunchedCodes \in {<< C10, C20, C30 >>, << C10, C120, C30 >>} => last.value = 3

\* C17 as stated: calculate_scores_ardf returns 0 and sets DISQUALIFIED exactly
\* on a late finish, else it leaves the status and returns the counted score;
\* the rogaine and Trail-O calculations leave the status alone.
C17_ArdfDisqualifiesOnLateFinish ==
    /\ last.op = "calculate_scores_ardf" =>
           IF LateFinish
           THEN last.value = 0 /\ results[1].status = StatusDisqualified
           ELSE results[1].status = Given.status
    /\ last.op \in {"calculate_rogaine_score", "calculate_rogaine_penalty",
                    "calculate_scores_trailo"} => results = last.before

\* C17 amended: calculate_scores_ardf returns 0 and sets DISQUALIFIED exactly
\* on a late finish of a result that has a course; without a course it returns
\* 0 and leaves the status, late or not; else it leaves the status and returns
\* the counted score.  The rogaine and Trail-O calculations leave the status.
C17_ArdfDisqualifiesOnLateFinishWithCourse ==
    /\ last.op = "calculate_scores_ardf" =>
           IF Given.course = None
           THEN last.value = 0 /\ results = last.before
           ELSE IF LateFinish
           THEN last.value = 0 /\ results[1].status = StatusDisqualified
           ELSE /\ results = last.before
                /\ last.value = ArdfCounted(Given, Given.course)
    /\ last.op \in {"calculate_rogaine_score", "calculate_rogaine_penalty",
                    "calculate_scores_trailo"} => results = last.before

\* a late finish with a full card on the course was scored
C17_Witness ==
    /\ last.op = "calculate_scores_ardf"
    /\ LateFinish
    /\ Given.course # None
    /\ PunchedCodes = << C10, C120, C30 >>
    /\ Given.status = StatusOK
    /\ results[1].status = StatusDisqualified

\* the number and the answer letter of a Trail-O code
TrailoNumber(code) == ToInt(AllButLast(code))
TrailoLetter(code) == LastChar(code)

\* C18: calculate_scores_trailo returns the number of course controls with a
\* number below 100 and a letter other than T for which some punch has the same
\* number and letter; controls from 100 on and controls with letter T add nothing.
C18_TrailoScoreSkipsTimedControls ==
    (last.op = "calculate_scores_trailo" /\ Given.course # None) =>
        last.value =
            Cardinality({k \in 1..Len(Given.course.controls) :
                /\ TrailoNumber(Given.course.controls[k].code) < 100
                /\ TrailoLetter(Given.course.controls[k].code) # "T"
                /\ \E j \in 1..Len(PunchedCodes) :
                       /\ TrailoNumber(PunchedCodes[j]) =
                              TrailoNumber(Given.course.controls[k].code)
                       /\ TrailoLetter(PunchedCodes[j]) =
                              TrailoLetter(Given.course.controls[k].code)})

\* ------------------------------------------------------------------------
\* Splits and ranking (models/result/split_calculation.py).  A split carries
\* the fields the split engine stamps; a time that is None is NoTime.
\* ------------------------------------------------------------------------
GroupSize == 3

NoTime == -1

\* Split(): a punch as the card reader made it
NewSplit(code, time, is_correct) ==
    [code |-> code, time |-> time, is_correct |-> is_correct, has_penalty |-> FALSE,
     index |-> 0, course_index |-> -1, leg_time |-> 0, relative_time |-> 0,
     leg_place |-> 0, relative_place |-> 0, leader_time |-> NoTime]

\* _process_splits_without_controls: punch k (1-based) of the card
RECURSIVE ProcessWithoutControls(_, _, _)
ProcessWithoutControls(splits, k, prev_time) ==
    IF k > Len(splits) THEN splits
    ELSE ProcessWithoutControls(
             [splits EXCEPT ![k].index = k - 1,
                            ![k].course_index = k - 1,
                            ![k].leg_time = splits[k].time - prev_time],
             k + 1, splits[k].time)

\* _update_correct_split that stamps the index of the next control
_update_correct_split_NextIndex(split, course_index, leg_start_time) ==
    [split EXCEPT !.leg_time = split.time - leg_start_time,
                  !.course_index = course_index + 1,
                  !.leg_place = 0]

\* _update_correct_split
_update_correct_split(split, course_index, leg_start_time) ==
    [split EXCEPT !.leg_time = split.time - leg_start_time,
                  !.course_index = course_index,
                  !.leg_place = 0]

\* the while loop of _process_splits_with_controls: [splits, course_index]
RECURSIVE ProcessWithControls(_, _, _, _, _)
ProcessWithControls(splits, controls, split_index, course_index, leg_start_time) ==
    IF ~(split_index < Len(splits) /\ course_index < Len(controls))
    THEN [splits |-> splits, course_index |-> course_index]
    ELSE IF splits[split_index + 1].is_correct
         THEN ProcessWithControls(
                  [splits EXCEPT ![split_index + 1] =
                      _update_correct_split(
                          [splits[split_index + 1] EXCEPT !.index = split_index],
                          course_index, leg_start_time)],
                  controls, split_index + 1, course_index + 1,
                  splits[split_index + 1].time)
         ELSE ProcessWithControls(
                  [splits EXCEPT ![split_index + 1].index = split_index],
                  controls, split_index + 1, course_index, leg_start_time)

\* a list that a comprehension or a sort built: its items are computed once
List(items) == items \o << >>

\* the splits with their relative_time (lines 103-105)
WithRelativeTimes(result) ==
    List([k \in 1..Len(result.splits) |->
        [result.splits[k] EXCEPT !.relative_time = result.splits[k].time - result.start_time]])

\* the controls of PersonSplits.course: find_course(result) or Course()
ControlsOf(result) == IF result.course = None THEN << >> ELSE result.course.controls

\* PersonSplits after _process_splits_with_controls returned
StampedLegs(result, walked) ==
    [result |-> [result EXCEPT !.splits = walked.splits],
     last_correct_index |-> walked.course_index - 1]

\* the rest of _generate_standard_splits on the splits that carry relative times
StampLegs(result, splits) ==
    IF Len(ControlsOf(result)) = 0
    THEN [result |-> [result EXCEPT !.splits =
                         ProcessWithoutControls(splits, 1, result.start_time)],
          last_correct_index |-> 0]
    ELSE StampedLegs(result,
             ProcessWithControls(splits, ControlsOf(result), 0, 0, result.start_time))

\* PersonSplits(race, result).generate() in the modes of the standard handler:
\* [result, last_correct_index]
_generate_standard_splits(result) == StampLegs(result, WithRelativeTimes(result))

\* get_leg_by_course_index without the test of last_correct_index
LegAt_NoBound(person, index) ==
    IF \E k \in 1..Len(person.result.splits) :
           person.result.splits[k].course_index = index
    THEN CHOOSE k \in 1..Len(person.result.splits) :
             /\ person.result.splits[k].course_index = index
             /\ \A j \in 1..(k - 1) : person.result.splits[j].course_index # index
    ELSE 0

\* position in result.splits of the split get_leg_by_course_index returns, 0 for None
LegAt(person, index) ==
    IF index > person.last_correct_index THEN 0
    ELSE IF \E k \in 1..Len(person.result.splits) :
                person.result.splits[k].course_index = index
    THEN CHOOSE k \in 1..Len(person.result.splits) :
             /\ person.result.splits[k].course_index = index
             /\ \A j \in 1..(k - 1) : person.result.splits[j].course_index # index
    ELSE 0

get_leg_time(person, index) ==
    IF LegAt(person, index) = 0 THEN NoTime
    ELSE person.result.splits[LegAt(person, index)].leg_time

get_leg_relative_time(person, index) ==
    IF LegAt(person, index) = 0 THEN NoTime
    ELSE person.result.splits[LegAt(person, index)].relative_time

\* comparison of two key tuples
LexLess(a, b) ==
    \E i \in 1..Len(a) : a[i] < b[i] /\ \A j \in 1..(i - 1) : a[j] = b[j]

\* list.sort(key=...): a stable sort, keys[i] the key of items[i]
StableSort(items, keys) ==
    List([p \in 1..Len(items) |->
        items[CHOOSE i \in 1..Len(items) :
                 p = 1 + Cardinality({j \in 1..Len(items) :
                                         \/ LexLess(keys[j], keys[i])
                                         \/ keys[j] = keys[i] /\ j < i})]])

\* the key of _sort_by_leg: (time is None, time or inf)
LegKey(time) == IF time = NoTime THEN << 1, 0 >> ELSE << 0, time >>

_sort_by_leg(person_splits, index, relative) ==
    StableSort(person_splits,
        List([i \in 1..Len(person_splits) |->
            LegKey(IF relative THEN get_leg_relative_time(person_splits[i], index)
                   ELSE get_leg_time(person_splits[i], index))]))

\* the time of the leg that _set_places_for_leg ranks
LegTimeAttr(person, index, relative) ==
    IF relative THEN get_leg_relative_time(person, index) ELSE get_leg_time(person, index)

\* the place without the shared places
PlaceOf_NoSharing(i, double_places_counter) == i + 1

\* line 273: the place of entry i (0-based) of the sorted list
PlaceOf(i, double_places_counter) == i + 1 - double_places_counter

\* setattr(leg, place_attr, place) and leg.leader_time of person i (1-based)
WithPlace(person_splits, i, k, relative, place, leader_time) ==
    IF relative
    THEN [person_splits EXCEPT ![i].result.splits[k].relative_place = place]
    ELSE [person_splits EXCEPT ![i].result.splits[k].leg_place = place,
                               ![i].result.splits[k].leader_time = leader_time]

\* the double_places_counter of entry i (1-based position i)
NextCounter(i, prev_time, current_time, double_places_counter) ==
    IF i > 1 /\ prev_time = current_time THEN double_places_counter + 1 ELSE 0

\* the for loop of _set_places_for_leg from entry i (1-based) on
RECURSIVE SetPlacesFrom(_, _, _, _, _, _, _)
SetPlacesFrom(person_splits, index, relative, leader_time, i, double_places_counter, prev_time) ==
    IF i > Len(person_splits) THEN person_splits
    ELSE IF LegAt(person_splits[i], index) = 0
    THEN SetPlacesFrom(person_splits, index, relative, leader_time, i + 1,
                       double_places_counter, prev_time)
    ELSE SetPlacesFrom(
             WithPlace(person_splits, i, LegAt(person_splits[i], index), relative,
                       PlaceOf(i - 1,
                           NextCounter(i, prev_time,
                               LegTimeAttr(person_splits[i], index, relative),
                               double_places_counter)),
                       leader_time),
             index, relative, leader_time, i + 1,
             NextCounter(i, prev_time, LegTimeAttr(person_splits[i], index, relative),
                         double_places_counter),
             LegTimeAttr(person_splits[i], index, relative))

_set_places_for_leg(person_splits, index, relative) ==
    IF Len(person_splits) = 0 THEN person_splits
    ELSE SetPlacesFrom(person_splits, index, relative,
                       LegTimeAttr(person_splits[1], index, relative), 1, 0,
                       LegTimeAttr(person_splits[1], index, relative))

\* _set_leg_leader: the entry of self.leader for the leg
_set_leg_leader(person_splits, index) ==
    [bib |-> person_splits[1].result.person.bib,
     time |-> get_leg_time(person_splits[1], index)]

RankLeg(sorted, index) == _set_places_for_leg(sorted, index, FALSE)

RankRelative(ranked, leader, index) ==
    [person_splits |->
         _set_places_for_leg(_sort_by_leg(ranked, index, TRUE), index, TRUE),
     leader |-> IF Len(ranked) = 0 THEN leader
                ELSE Append(leader, _set_leg_leader(ranked, index))]

\* one turn of the loop of _set_places, gs is [person_splits, leader]
SetPlacesOfLeg(gs, index) ==
    RankRelative(RankLeg(_sort_by_leg(gs.person_splits, index, FALSE), index),
                 gs.leader, index)

RECURSIVE SetPlacesLoop(_, _, _)
SetPlacesLoop(gs, index, cp_count) ==
    IF index >= cp_count THEN gs
    ELSE SetPlacesLoop(SetPlacesOfLeg(gs, index), index + 1, cp_count)

_set_places(gs, cp_count) == SetPlacesLoop(gs, 0, cp_count)

\* position of a status in status_priority plus one, 0 when it is not listed
StatusPriority(status) ==
    CASE status = StatusOvertime -> 1
      [] status = StatusMissingPunch -> 2
      [] status = StatusDisqualified -> 3
      [] status = StatusDidNotFinish -> 4
      [] status = StatusDidNotStart -> 5
      [] OTHER -> 0

\* the order of two results (Result comparison): by elapsed result time
ResultKey(result) == get_result_otime(result)

_sort_by_result(person_splits) ==
    StableSort(person_splits,
        List([i \in 1..Len(person_splits) |->
            << 0, StatusPriority(person_splits[i].result.status),
               ResultKey(person_splits[i].result) >>]))

\* ResultCalculation.get_group_finishes: the results of the members of the group
get_group_finishes(rs, group) == SelectSeq(rs, LAMBDA r : r.person # None /\ r.group = group)

\* GroupSplits(race, group): cp_count
cp_count(group) == IF group.course = None THEN 0 ELSE Len(group.course.controls)

\* _sort_results of an individual group (is_relay() is false)
SortedByResult(gs) == [gs EXCEPT !.person_splits = _sort_by_result(gs.person_splits)]

\* GroupSplits.generate() of an individual group: [person_splits, leader]
GroupSplits_generate(rs, group) ==
    SortedByResult(
        _set_places(
            [person_splits |->
                 List([i \in 1..Len(get_group_finishes(rs, group)) |->
                          _generate_standard_splits(get_group_finishes(rs, group)[i])]),
             leader |-> << >>],
            cp_count(group)))


\* ------------------------------------------------------------------------
\* A group of competitors whose results are ranked: results holds the
\* finishes of the group, last the GroupSplits object that generate() built
\* ------------------------------------------------------------------------
\* the first punch of a card is made at one of two times
LegTimes(k) == IF k = 1 THEN {PunchTime(1), PunchTime(1) + 10000} ELSE {PunchTime(k)}

LegCodes == << C31, C41 >>

LegCards ==
    UNION {{[k \in 1..n |-> NewSplit(LegCodes[k], t[k], c[k])] :
               t \in {u \in [1..n -> UNION {LegTimes(k) : k \in 1..n}] :
                        \A k \in 1..n : u[k] \in LegTimes(k)},
               c \in [1..n -> BOOLEAN]} : n \in 0..Len(LegCodes)}

\* status and finish time of the results that are put in order
Finishes ==
    {[status |-> StatusOK, finish_time |-> 100000],
     [status |-> StatusOK, finish_time |-> 120000],
     [status |-> StatusMissPenaltyLap, finish_time |-> 90000],
     [status |-> StatusMultiDayIssue, finish_time |-> 130000],
     [status |-> StatusOvertime, finish_time |-> 200000],
     [status |-> StatusMissingPunch, finish_time |-> 100000],
     [status |-> StatusDisqualified, finish_time |-> 90000],
     [status |-> StatusDidNotFinish, finish_time |-> 100000],
     [status |-> StatusDidNotStart, finish_time |-> 100000]}

LegCourse == Course(LegCodes)

SplitGroup(course) ==
    [name |-> << "M", "2", "1" >>, max_time |-> 0, is_any_course |-> FALSE,
     course |-> course]

InitSplits ==
    /\ \E n \in 1..GroupSize :
         \/ \E cards \in [1..n -> LegCards] :
               results = [i \in 1..n |->
                   NewResult([bib |-> i], SplitGroup(LegCourse), LegCourse, cards[i],
                             100000, StatusOK)]
         \/ \E finish \in [1..n -> Finishes], course \in {None, LegCourse} :
               results = [i \in 1..n |->
                   NewResult([bib |-> i], SplitGroup(course), course,
                             << NewSplit(C31, PunchTime(1), TRUE) >>,
                             finish[i].finish_time, finish[i].status)]
    /\ settings = ScoreSettings("time")
    /\ last = [op |-> "init"]

\* the result of the competitor with the given bib, as generate() left it
StampedResult(person_splits, bib) ==
    person_splits[CHOOSE p \in 1..Len(person_splits) :
                      person_splits[p].result.person.bib = bib].result

\* GroupSplits(race(), group).generate(): the splits are stamped in place
GroupSplitsGenerate ==
    \E out \in {GroupSplits_generate(results, results[1].group)} :
        /\ results' = [i \in 1..Len(results) |->
                           StampedResult(out.person_splits, results[i].person.bib)]
        /\ last' = [op |-> "generate", before |-> results,
                    person_splits |-> out.person_splits, leader |-> out.leader]
        /\ UNCHANGED settings

NextSplits == GroupSplitsGenerate

SpecSplits == InitSplits /\ [][NextSplits]_vars

\* the entries of the generated list and the legs of the group's course
Entries == 1..Len(last.person_splits)
Legs == 0..(cp_count(results[1].group) - 1)

HasLeg(p, index) == LegAt(last.person_splits[p], index) # 0

\* the place stamped on the leg of entry p
StampedPlace(p, index, relative) ==
    IF relative
    THEN last.person_splits[p].result.splits[LegAt(last.person_splits[p], index)].relative_place
    ELSE last.person_splits[p].result.splits[LegAt(last.person_splits[p], index)].leg_place

\* one more than the number of members with a strictly smaller time on the leg
SharedPlace(p, index, relative) ==
    1 + Cardinality({q \in Entries :
            /\ HasLeg(q, index)
            /\ LegTimeAttr(last.person_splits[q], index, relative)
                   < LegTimeAttr(last.person_splits[p], index, relative)})

\* C19: after generate, for every leg of the course and every member who has
\* the leg, leg_place is one more than the number of members with a strictly
\* smaller leg time, and relative_place the same with the relative time; a
\* split that is nobody's leg carries no place.
C19_LegPlacesShareTies ==
    last.op = "generate" =>
        /\ \A index \in Legs, p \in Entries, relative \in BOOLEAN :
               HasLeg(p, index) =>
                   StampedPlace(p, index, relative) = SharedPlace(p, index, relative)
        /\ \A p \in Entries : \A k \in 1..Len(last.person_splits[p].result.splits) :
               (\A index \in Legs : LegAt(last.person_splits[p], index) # k) =>
                   /\ last.person_splits[p].result.splits[k].leg_place = 0
                   /\ last.person_splits[p].result.splits[k].relative_place = 0

\* two members tie on the first leg and share place 1, the third gets place 3
C19_Witness ==
    /\ last.op = "generate"
    /\ Len(last.person_splits) = 3
    /\ \A p \in Entries : HasLeg(p, 0)
    /\ StampedPlace(1, 0, FALSE) = 1
    /\ StampedPlace(2, 0, FALSE) = 1
    /\ StampedPlace(3, 0, FALSE) = 3

\* C20: after generate of an individual group every OK result precedes every
\* result with another status, OK results are in the order of their elapsed
\* time, and the others follow in the order OVERTIME, MISSING_PUNCH,
\* DISQUALIFIED, DID_NOT_FINISH, DID_NOT_START.
C20_OkFirstThenStatusClasses ==
    last.op = "generate" =>
        \A p, q \in Entries :
            p < q =>
                /\ ~(/\ last.person_splits[p].result.status # StatusOK
                      /\ last.person_splits[q].result.status = StatusOK)
                /\ (/\ last.person_splits[p].result.status = StatusOK
                     /\ last.person_splits[q].result.status = StatusOK) =>
                        get_result_otime(last.person_splits[p].result)
                            <= get_result_otime(last.person_splits[q].result)
                /\ (/\ StatusPriority(last.person_splits[p].result.status) > 0
                     /\ StatusPriority(last.person_splits[q].result.status) > 0) =>
                        StatusPriority(last.person_splits[p].result.status)
                            <= StatusPriority(last.person_splits[q].result.status)


\* ------------------------------------------------------------------------
\* Relay groups: GroupSplits._sort_results orders them with _sort_by_place.
\* A result carries place, 0 or less when no place was recorded.
\* ------------------------------------------------------------------------
\* str(n) of an integer that is not negative
RECURSIVE StrOfInt(_)
StrOfInt(n) ==
    IF n < 10 THEN << CHOOSE ch \in Digits : DigitVal(ch) = n >>
    ELSE Append(StrOfInt(n \div 10), CHOOSE ch \in Digits : DigitVal(ch) = n % 10)

\* str(result.get_place()): the place when one is recorded, else ""
get_place(result) == IF result.place > 0 THEN StrOfInt(result.place) ELSE << >>

\* ("0000" + text)[-4:]
LastFour(text) ==
    SubSeq(<< "0", "0", "0", "0" >> \o text, Len(text) + 1, Len(text) + 4)

\* PersonSplits.relay_leg
relay_leg(result) == IF result.person = None THEN 0 ELSE result.person.bib \div 1000

\* the key of _sort_by_place: the four characters compare as their digits do
PlaceKey(result) ==
    << IF get_place(result) = << >> THEN 1 ELSE 0,
       DigitVal(LastFour(get_place(result))[1]), DigitVal(LastFour(get_place(result))[2]),
       DigitVal(LastFour(get_place(result))[3]), DigitVal(LastFour(get_place(result))[4]),
       relay_leg(result) >>

_sort_by_place(person_splits) ==
    StableSort(person_splits,
        List([i \in 1..Len(person_splits) |-> PlaceKey(person_splits[i].result)]))

\* GroupSplits.generate() of a relay group (is_relay() is true)
GroupSplits_generate_relay(rs, group) ==
    [person_splits |->
         _sort_by_place(
             _set_places(
                 [person_splits |->
                      List([i \in 1..Len(get_group_finishes(rs, group)) |->
                               _generate_standard_splits(get_group_finishes(rs, group)[i])]),
                  leader |-> << >>],
                 cp_count(group)).person_splits)]

\* bibs of the members of relay teams: leg * 1000 + team
RelayBibs == {1001, 2001, 1002}

\* recorded places: none, one digit, two digits, five digits
RelayPlaces == {0, 2, 10, 10000}

InitRelay ==
    /\ \E n \in 1..GroupSize :
         \E bib \in {b \in [1..n -> RelayBibs] : \A i, j \in 1..n : i # j => b[i] # b[j]},
            place \in [1..n -> RelayPlaces],
            course \in {None, LegCourse} :
               results = [i \in 1..n |->
                   NewResult([bib |-> bib[i]], SplitGroup(course), course,
                             << NewSplit(C31, PunchTime(1), TRUE) >>,
                             100000, StatusOK) @@ [place |-> place[i]]]
    /\ settings = ScoreSettings("time")
    /\ last = [op |-> "init"]

\* GroupSplits(race(), group).generate() of the relay group
RelayGroupSplitsGenerate ==
    \E out \in {GroupSplits_generate_relay(results, results[1].group)} :
        /\ results' = [i \in 1..Len(results) |->
                           StampedResult(out.person_splits, results[i].person.bib)]
        /\ last' = [op |-> "generate_relay", before |-> results,
                    person_splits |-> out.person_splits]
        /\ UNCHANGED settings

NextRelay == RelayGroupSplitsGenerate

SpecRelay == InitRelay /\ [][NextRelay]_vars

\* entry p precedes entry q in the order the claim states
RelayOrdered(p, q) ==
    /\ (p.place > 0 /\ q.place > 0) =>
           /\ p.place <= q.place
           /\ p.place = q.place => relay_leg(p) <= relay_leg(q)
    /\ ~(p.place <= 0 /\ q.place > 0)

\* C21: after generate on a relay group, of two results with recorded places
\* the one with the smaller place comes first, results with the same place
\* are in the order of their leg bib // 1000, and results without a recorded
\* place come after all results that have one.
C21_RelayOrderedByPlaceThenLeg ==
    last.op = "generate_relay" =>
        \A p, q \in Entries :
            p < q => RelayOrdered(last.person_splits[p].result, last.person_splits[q].result)

\* the same for the groups whose recorded places have at most four digits
C21_RelayOrderedBelowTenThousand ==
    (last.op = "generate_relay"
        /\ \A p \in Entries : last.person_splits[p].result.place < 10000) =>
        \A p, q \in Entries :
            p < q => RelayOrdered(last.person_splits[p].result, last.person_splits[q].result)

\* places 10 and 2 and a shared place whose legs were entered in reverse
C21_Witness ==
    /\ last.op = "generate_relay"
    /\ Len(last.person_splits) = 3
    /\ last.before[1].place = 10 /\ last.before[2].place = 2 /\ last.before[3].place = 2
    /\ relay_leg(last.before[2]) > relay_leg(last.before[3])
    /\ last.person_splits[3].result.place = 10


\* the punches of the penalty-lap station on the card as it was before the call
LapsRun ==
    Len(detach_penalty_laps2(Pre.splits,
            settings.marked_route_penalty_lap_station_code).penalty)

\* C22: in time mode with marked_route_mode laps and the lap-station test on,
\* a checked result that passed the course check is MISS_PENALTY_LAP exactly
\* when the card, as it was before the check, holds fewer incorrect punches
\* of the penalty-lap station than penalty_laps computed; who ran at least
\* the laps required is never MISS_PENALTY_LAP.
C22_MissPenaltyLapIffFewerLapsRun ==
    (CheckedIn("time") /\ LapsChecked(settings) /\ ~CourseCheckFailed) =>
        (Post.status = StatusMissPenaltyLap <=> LapsRun < Post.penalty_laps)


\* ------------------------------------------------------------------------
\* PersonSplits(race(), result).generate() on one result: results holds the
\* result, last the PersonSplits object the call returned
\* ------------------------------------------------------------------------
\* a card of up to three punches of the course in the order of their times;
\* a punch carries what an earlier generate() or the reader left on it
StampedCards ==
    UNION {{[k \in 1..n |->
                [NewSplit(LegCodes[((k - 1) % 2) + 1], PunchTime(k), c[k])
                    EXCEPT !.course_index = ci[k], !.leg_time = lt[k]]] :
               c \in [1..n -> BOOLEAN], ci \in [1..n -> {-1, 1}],
               lt \in [1..n -> {0, 5000}]} : n \in 0..MaxPunches}

\* the key of the two sorts of _generate_trailo_splits: (int(code[:-1]), time)
TrailoSortKey(split) == << ToInt(AllButLast(split.code)), split.time >>

\* result.splits.sort(key=...) of lines 53 and 62
TrailoSorted(splits) ==
    StableSort(splits, List([k \in 1..Len(splits) |-> TrailoSortKey(splits[k])]))

\* _update_trailo_split
_update_trailo_split(split, control) ==
    IF AllButLast(control.code) = << "T" >>
    THEN [split EXCEPT !.leg_time = split.time]
    ELSE [split EXCEPT !.course_index = ToInt(AllButLast(control.code)),
                       !.is_correct = (LastChar(split.code) = LastChar(control.code))]

\* _add_missing_trailo_control: the split that is appended; Split() has no time
_add_missing_trailo_control(control) ==
    IF AllButLast(control.code) # << "T" >>
    THEN [NewSplit(Append(AllButLast(control.code), "X"), NoTime, FALSE)
             EXCEPT !.course_index = ToInt(AllButLast(control.code))]
    ELSE NewSplit(control.code, NoTime, FALSE)

\* position of the first split with the prefix of the control, 0 when there is none
TrailoDetected(splits, control) ==
    IF \E k \in 1..Len(splits) : AllButLast(splits[k].code) = AllButLast(control.code)
    THEN CHOOSE k \in 1..Len(splits) :
             /\ AllButLast(splits[k].code) = AllButLast(control.code)
             /\ \A j \in 1..(k - 1) :
                    AllButLast(splits[j].code) # AllButLast(control.code)
    ELSE 0

\* _process_trailo_control that takes every control for a missing one
_process_trailo_control_AlwaysMissing(splits, control) ==
    Append(splits, _add_missing_trailo_control(control))

_process_trailo_control(splits, control) ==
    IF TrailoDetected(splits, control) # 0
    THEN [splits EXCEPT ![TrailoDetected(splits, control)] =
             _update_trailo_split(splits[TrailoDetected(splits, control)], control)]
    ELSE Append(splits, _add_missing_trailo_control(control))

\* the loop over the controls of the course, from control k on
RECURSIVE TrailoControlsFrom(_, _, _)
TrailoControlsFrom(splits, controls, k) ==
    IF k > Len(controls) THEN splits
    ELSE TrailoControlsFrom(_process_trailo_control(splits, controls[k]), controls, k + 1)

\* lines 50-57: the splits without the synthesized ones, sorted and reset
TrailoReset(splits) ==
    List([k \in 1..Len(TrailoSorted(SelectSeq(splits, LAMBDA s : LastChar(s.code) # "X"))) |->
        [TrailoSorted(SelectSeq(splits, LAMBDA s : LastChar(s.code) # "X"))[k]
            EXCEPT !.course_index = -1, !.is_correct = FALSE]])

\* _generate_trailo_splits: [result, last_correct_index]
_generate_trailo_splits(result) ==
    [result |-> [result EXCEPT !.splits =
                    TrailoSorted(TrailoControlsFrom(TrailoReset(result.splits),
                                                    ControlsOf(result), 1))],
     last_correct_index |-> 0]

\* PersonSplits(race(), result).generate(): the handler of the processing mode
PersonSplits_generate(st, result) ==
    IF st.processing_mode = "trailo" THEN _generate_trailo_splits(result)
    ELSE _generate_standard_splits(result)

\* the answers a Trail-O card holds, in any order of the controls
TrailoAnswerCards ==
    UNION {{[k \in 1..n |-> NewSplit(f[k], PunchTime(k), TRUE)] :
               f \in [1..n -> {C31A, C31B, C101A}]} : n \in 0..MaxControls}

TrailoAnswerCourses ==
    UNION {{Course(codes) : codes \in [1..n -> {C31A, C31B, C101A}]} : n \in 1..MaxControls}

InitPerson ==
    /\ \/ \E splits \in StampedCards, course \in {None, LegCourse} :
            /\ settings = ScoreSettings("time")
            /\ results = << NewResult(Person, SplitGroup(course), course, splits,
                                      100000, StatusOK) >>
       \/ \E splits \in TrailoAnswerCards, course \in TrailoAnswerCourses :
            /\ settings = ScoreSettings("trailo")
            /\ results = << NewResult(Person, SplitGroup(course), course, splits,
                                      100000, StatusOK) >>
    /\ last = [op |-> "init"]

\* PersonSplits(race(), results[1]).generate(): the splits are stamped in place
PersonSplitsGenerate ==
    \E out \in {PersonSplits_generate(settings, results[1])} :
        /\ results' = << out.result >>
        /\ last' = [op |-> "generate", before |-> results, person |-> out,
                    repeat |-> last.op = "generate"]
        /\ UNCHANGED settings

NextPerson == PersonSplitsGenerate

SpecPerson == InitPerson /\ [][NextPerson]_vars

\* the last call was generate() of a standard mode on a course with controls
StandardGenerated ==
    /\ last.op = "generate"
    /\ settings.processing_mode # "trailo"
    /\ Len(ControlsOf(last.before[1])) > 0

\* the punches of the card before the call, and after it
CardBefore == last.before[1].splits
CardAfter == results[1].splits

\* the punches flagged is_correct that precede punch j on the card
CorrectBefore(j) == {i \in 1..(j - 1) : CardBefore[i].is_correct}

\* the time the leg of punch j starts at
LegStart(j) ==
    IF CorrectBefore(j) = {} THEN last.before[1].start_time
    ELSE CardBefore[CHOOSE i \in CorrectBefore(j) : \A h \in CorrectBefore(j) : h <= i].time

\* C23: after generate in a standard mode on a course with controls, the k-th
\* punch flagged is_correct (k from 0, k below the number of controls) has
\* course_index k and leg_time its time less the time of the previous correct
\* punch (the start for k = 0); the punches not flagged keep their
\* course_index and leg_time.
C23_CorrectPunchesStampedInLockStep ==
    StandardGenerated =>
        /\ Len(CardAfter) = Len(CardBefore)
        /\ \A j \in 1..Len(CardBefore) :
              /\ (/\ CardBefore[j].is_correct
                  /\ Cardinality(CorrectBefore(j)) < Len(ControlsOf(last.before[1]))) =>
                     /\ CardAfter[j].course_index = Cardinality(CorrectBefore(j))
                     /\ CardAfter[j].leg_time = CardBefore[j].time - LegStart(j)
              /\ ~CardBefore[j].is_correct =>
                     /\ CardAfter[j].course_index = CardBefore[j].course_index
                     /\ CardAfter[j].leg_time = CardBefore[j].leg_time

\* a wrong punch between two correct ones: the correct ones carry 0 and 1
C23_Witness ==
    /\ StandardGenerated
    /\ Len(CardBefore) = 3
    /\ CardBefore[1].is_correct /\ ~CardBefore[2].is_correct /\ CardBefore[3].is_correct
    /\ CardBefore[2].course_index = 1 /\ CardBefore[2].leg_time = 5000
    /\ CardAfter[3].course_index = 1
    /\ CardAfter[3].leg_time = PunchTime(3) - PunchTime(1)

\* the smaller of the number of correct punches and the number of controls
StampedCount ==
    IF Cardinality(CorrectBefore(Len(CardBefore) + 1)) < Len(ControlsOf(last.before[1]))
    THEN Cardinality(CorrectBefore(Len(CardBefore) + 1))
    ELSE Len(ControlsOf(last.before[1]))

\* C24: after generate in a standard mode on a course with controls,
\* last_correct_index is the highest course index stamped in the call, -1
\* when no punch is correct, and get_leg_by_course_index(i) gives none for
\* every i above it, also when a punch carries course_index i.
C24_LastCorrectIndexBoundsLegLookup ==
    StandardGenerated =>
        /\ last.person.last_correct_index = StampedCount - 1
        /\ \A i \in 0..MaxPunches :
               i > last.person.last_correct_index => LegAt(last.person, i) = 0

\* one correct punch, and a wrong punch that carries the course index 1
C24_Witness ==
    /\ StandardGenerated
    /\ last.person.last_correct_index = 0
    /\ \E k \in 1..Len(CardAfter) :
           ~CardAfter[k].is_correct /\ CardAfter[k].course_index = 1
    /\ LegAt(last.person, 1) = 0


\* the last call was generate() in Trail-O mode
TrailoGenerated == last.op = "generate" /\ settings.processing_mode = "trailo"

\* the number a Trail-O code starts with
TrailoPrefix(code) == ToInt(AllButLast(code))

\* the positions of the splits after the call that carry the prefix of the control
SplitsOfControl(control) ==
    {k \in 1..Len(CardAfter) : TrailoPrefix(CardAfter[k].code) = TrailoPrefix(control.code)}

\* a punch of the card before the call answers the control
Punched(control) ==
    \E k \in 1..Len(CardBefore) :
        /\ LastChar(CardBefore[k].code) # "X"
        /\ TrailoPrefix(CardBefore[k].code) = TrailoPrefix(control.code)

\* C27: after generate in Trail-O mode every control of the course that no
\* punch answers has exactly one split of its prefix, with is_correct false;
\* the splits are in the order of (prefix, time); and a further generate on
\* the same result leaves the number of splits as it is.
C27_TrailoMissingControlsOnce ==
    TrailoGenerated =>
        /\ \A c \in 1..Len(ControlsOf(last.before[1])) :
               ~Punched(ControlsOf(last.before[1])[c]) =>
                   /\ Cardinality(SplitsOfControl(ControlsOf(last.before[1])[c])) = 1
                   /\ \A k \in SplitsOfControl(ControlsOf(last.before[1])[c]) :
                          ~CardAfter[k].is_correct
        /\ \A j, k \in 1..Len(CardAfter) :
               j < k => \/ TrailoSortKey(CardAfter[j]) = TrailoSortKey(CardAfter[k])
                        \/ LexLess(TrailoSortKey(CardAfter[j]), TrailoSortKey(CardAfter[k]))
        /\ last.repeat => Len(CardAfter) = Len(CardBefore)

\* a second generate on a card that answers one of two controls, out of order
C27_Witness ==
    /\ TrailoGenerated
    /\ last.repeat
    /\ Len(ControlsOf(last.before[1])) = 2
    /\ Punched(ControlsOf(last.before[1])[2])
    /\ ~Punched(ControlsOf(last.before[1])[1])
    /\ Len(CardAfter) = 3
    /\ \E k \in 1..Len(CardAfter) : LastChar(CardAfter[k].code) = "X"


\* ------------------------------------------------------------------------
\* Results that carry the credit time of an earlier check, made while the
\* setting credit_time_enabled had another value
\* ------------------------------------------------------------------------
InitCredit ==
    \E mr \in MarkedRouteSettings, credit \in BOOLEAN, credit_time \in {0, 7000},
       course \in CoursesOf("time"), splits \in Cards("time"),
       status \in AllStatuses \ FinalStatuses :
        /\ settings = SettingsOf("time", mr, credit, 0)
        /\ results = << [NewResult(Person, SplitGroup(course), course, splits,
                                   100000, status) EXCEPT !.credit_time = credit_time],
                        UnassignedResult >>
        /\ last = [op |-> "init", idx |-> 0, raised |-> "none", ran |-> FALSE,
                   repeat |-> FALSE, before |-> << >>]

SpecCredit == InitCredit /\ [][Next]_vars

\* C25: after a check that ran, credit_time is, with credit_time_enabled, the
\* sum over the punches of the credit control that have a preceding punch of
\* the time since that punch, and zero without credit_time_enabled, whatever
\* it was before.
C25_CreditTimeIsSumOrZero ==
    Checked =>
        Post.credit_time =
            IF settings.credit_time_enabled
            THEN credit_calculation(Pre.splits, settings.credit_time_cp)
            ELSE 0

\* the first half alone: the sum is taken over the card as it was
C25_EnabledSumOverCardBefore ==
    (Checked /\ settings.credit_time_enabled) =>
        Post.credit_time = credit_calculation(Pre.splits, settings.credit_time_cp)

\* what the code does: the sum over the punches checking left on the card, and
\* the credit time of before when the setting is off
C25_CreditTimeAsComputed ==
    Checked =>
        Post.credit_time =
            IF settings.credit_time_enabled
            THEN credit_calculation(Post.splits, settings.credit_time_cp)
            ELSE Pre.credit_time


\* C26: checking a result leaves its punch list as it was, in every
\* marked-route mode and every processing mode: no punch is added, removed or
\* moved.
C26_CheckingKeepsPunchList ==
    last.op = "checking" => Post.splits = Pre.splits

\* the same outside marked_route_mode laps with the lap-station test
C26_PunchListKeptWithoutLapStationTest ==
    (last.op = "checking" /\ ~LapsChecked(settings)) => Post.splits = Pre.splits


\* C29: when checking ran to its end on a result, the status is OK,
\* MISSING_PUNCH, MISS_PENALTY_LAP or OVERTIME in every processing mode: the
\* DISQUALIFIED that the ARDF score calculation sets is overwritten before
\* checking returns, and the checked result is not checked again.
C29_CheckedStatusIsFinal ==
    Checked => Post.status \in {StatusOK, StatusMissingPunch, StatusMissPenaltyLap, StatusOvertime}

\* the same outside the ARDF mode
C29_CheckedStatusIsFinalOutsideArdf ==
    (Checked /\ settings.processing_mode # "ardf") =>
        Post.status \in {StatusOK, StatusMissingPunch, StatusMissPenaltyLap, StatusOvertime}


\* ------------------------------------------------------------------------
\* The SFR card reader (modules/sfr/sfrreader.py): SFRReaderClient with its
\* reader thread and its result-processor thread.  last holds the client, the
\* threads it created, the queue and the station; results holds the Results
\* that data_sender emitted.  A thread takes one step at a time.
\* ------------------------------------------------------------------------
MaxStarts == 2
MaxCards == 2
MaxQueued == 2

\* the data read from the k-th card put in the station
CardData(k) == [bib |-> 10 * k + 1]

SFRReaderCommand(command, data) == [command |-> command, data |-> data]

\* CardDataProcessor.process_card_data: the Result made from the data of a card
process_card_data(is_trailo, card_data) ==
    IF is_trailo
    THEN [card_number |-> card_data.bib \div 10, trailo_ans |-> card_data.bib % 10]
    ELSE [card_number |-> card_data.bib, trailo_ans |-> -1]

\* a thread is started though the one before it has not finished
NeedsThread_Always(thread, threads) == TRUE

\* self._thread is None or self._thread.isFinished()
NeedsThread(thread, threads) == thread = 0 \/ threads[thread].pc = "finished"

\* _process_card that puts the data whether the card is connected or not
AfterConnectedTest_NoTest(connected) == "put"

\* _process_card, line 127: where the reader thread goes after is_card_connected()
AfterConnectedTest(connected) == IF connected THEN "put" ELSE "loop"

NewReaderThread == [pc |-> "run", card |-> 0]
NewProcessorThread == [pc |-> "run", cmd |-> None]

\* SFRReaderClient() with an empty station
InitReader ==
    /\ \E mode \in {"time", "trailo"} : settings = ScoreSettings(mode)
    /\ results = << >>
    /\ last = [op |-> "reader", stop_event |-> FALSE, queue |-> << >>,
               reader_thread |-> 0, processor_thread |-> 0,
               readers |-> << >>, processors |-> << >>,
               station |-> 0, inserted |-> 0, starts |-> 0,
               enqueued |-> << >>, acked |-> {}, errors |-> 0]

\* the threads that run on when the client starts one: a thread that has
\* finished and that the client lets go of is gone
KeptThreads(threads) == SelectSeq(threads, LAMBDA th : th.pc # "finished")

\* _start_reader_thread and _start_processor_thread: [threads, thread]
StartThread(thread, threads, new_thread) ==
    IF NeedsThread(thread, threads)
    THEN [threads |-> Append(KeptThreads(threads), new_thread),
          thread |-> Len(KeptThreads(threads)) + 1]
    ELSE [threads |-> threads, thread |-> thread]

\* SFRReaderClient.start()
Start ==
    /\ last.starts < MaxStarts
    /\ last' = [last EXCEPT
          !.starts = @ + 1, !.stop_event = FALSE,
          !.readers = StartThread(last.reader_thread, last.readers, NewReaderThread).threads,
          !.reader_thread =
              StartThread(last.reader_thread, last.readers, NewReaderThread).thread,
          !.processors =
              StartThread(last.processor_thread, last.processors, NewProcessorThread).threads,
          !.processor_thread =
              StartThread(last.processor_thread, last.processors, NewProcessorThread).thread]
    /\ UNCHANGED << settings, results >>

\* SFRReaderClient.stop()
Stop ==
    /\ last.starts > 0
    /\ ~last.stop_event
    /\ last' = [last EXCEPT !.stop_event = TRUE]
    /\ UNCHANGED << settings, results >>

\* a competitor puts the next card in the station, or takes the card away
InsertCard ==
    /\ last.station = 0
    /\ last.inserted < MaxCards
    /\ last' = [last EXCEPT !.station = last.inserted + 1,
                            !.inserted = @ + 1]
    /\ UNCHANGED << settings, results >>

RemoveCard ==
    /\ last.station # 0
    /\ last' = [last EXCEPT !.station = 0]
    /\ UNCHANGED << settings, results >>

\* SFRReaderThread.run up to the loop: SFRReaderReadout() is made or raises
ReaderRun(t) ==
    /\ last.readers[t].pc = "run"
    /\ \E ok \in BOOLEAN :
         last' = [last EXCEPT !.readers[t].pc = IF ok THEN "loop" ELSE "finished"]
    /\ UNCHANGED << settings, results >>

\* the test of the while loop of _poll_cards; after it sfr.disconnect()
ReaderLoop(t) ==
    /\ last.readers[t].pc = "loop"
    /\ last' = [last EXCEPT !.readers[t].pc = IF last.stop_event THEN "finished" ELSE "poll"]
    /\ UNCHANGED << settings, results >>

\* sfr.poll_card(): a card is there, or none and the thread sleeps, or it raises
ReaderPollCard(t) ==
    /\ last.readers[t].pc = "poll"
    /\ \E raised \in BOOLEAN :
         last' = [last EXCEPT !.readers[t].pc = IF ~raised /\ last.station # 0 THEN "read" ELSE "loop"]
    /\ UNCHANGED << settings, results >>

\* sfr.read_card(): the data of the card in the station, or it raises
ReaderReadCard(t) ==
    /\ last.readers[t].pc = "read"
    /\ \E raised \in BOOLEAN :
         last' = [last EXCEPT !.readers[t].pc = IF raised \/ last.station = 0 THEN "loop" ELSE "connected",
                     !.readers[t].card = IF raised \/ last.station = 0 THEN 0 ELSE last.station]
    /\ UNCHANGED << settings, results >>

\* sfr.is_card_connected()
ReaderIsCardConnected(t) ==
    /\ last.readers[t].pc = "connected"
    /\ last' = [last EXCEPT !.readers[t].pc =
                                AfterConnectedTest(last.station = last.readers[t].card)]
    /\ UNCHANGED << settings, results >>

\* self._queue.put(SFRReaderCommand("card_data", card_data), timeout=1)
ReaderPut(t) ==
    /\ last.readers[t].pc = "put"
    /\ Len(last.enqueued) < MaxQueued
    /\ \E raised \in BOOLEAN :
         last' = IF raised
                 THEN [last EXCEPT !.readers[t].pc = "loop"]
                 ELSE [last EXCEPT !.readers[t].pc = "ack",
                          !.queue = Append(@, SFRReaderCommand("card_data",
                                                  CardData(last.readers[t].card))),
                          !.enqueued = Append(@, CardData(last.readers[t].card))]
    /\ UNCHANGED << settings, results >>

\* sfr.ack_card(): the station releases the card, or it raises
ReaderAckCard(t) ==
    /\ last.readers[t].pc = "ack"
    /\ \E raised \in BOOLEAN :
         last' = IF raised
                 THEN [last EXCEPT !.readers[t].pc = "loop"]
                 ELSE [last EXCEPT !.readers[t].pc = "loop",
                          !.station = IF @ = last.readers[t].card THEN 0 ELSE @,
                          !.acked = @ \cup {last.readers[t].card}]
    /\ UNCHANGED << settings, results >>

\* ResultProcessorThread.run: time.sleep(3)
ProcessorRun(t) ==
    /\ last.processors[t].pc = "run"
    /\ last' = [last EXCEPT !.processors[t].pc = "loop"]
    /\ UNCHANGED << settings, results >>

\* the test of the while loop of run
ProcessorLoop(t) ==
    /\ last.processors[t].pc = "loop"
    /\ last' = [last EXCEPT !.processors[t].pc = IF last.stop_event THEN "finished" ELSE "get"]
    /\ UNCHANGED << settings, results >>

\* self._queue.get(timeout=5): a command, or Empty after the timeout
ProcessorGet(t) ==
    /\ last.processors[t].pc = "get"
    /\ last' = IF Len(last.queue) = 0
               THEN [last EXCEPT !.processors[t].pc = "loop"]
               ELSE [last EXCEPT !.processors[t].pc = "process",
                        !.processors[t].cmd = Head(last.queue),
                        !.queue = Tail(@)]
    /\ UNCHANGED << settings, results >>

\* _process_card_data: the Result is made and emitted, or the making raises
ProcessorProcessCardData(t) ==
    /\ last.processors[t].pc = "process"
    /\ \E raised \in BOOLEAN :
         /\ last' = [last EXCEPT !.processors[t].pc = "loop",
                        !.processors[t].cmd = None,
                        !.errors = IF raised THEN 1 ELSE @]
         /\ results' = IF raised \/ last.processors[t].cmd.command # "card_data"
                       THEN results
                       ELSE Append(results,
                                process_card_data(settings.processing_mode = "trailo",
                                                  last.processors[t].cmd.data))
    /\ UNCHANGED settings

NextReader ==
    \/ Start
    \/ Stop
    \/ InsertCard
    \/ RemoveCard
    \/ \E t \in 1..Len(last.readers) :
         \/ ReaderRun(t)
         \/ ReaderLoop(t)
         \/ ReaderPollCard(t)
         \/ ReaderReadCard(t)
         \/ ReaderIsCardConnected(t)
         \/ ReaderPut(t)
         \/ ReaderAckCard(t)
    \/ \E t \in 1..Len(last.processors) :
         \/ ProcessorRun(t)
         \/ ProcessorLoop(t)
         \/ ProcessorGet(t)
         \/ ProcessorProcessCardData(t)

SpecReader == InitReader /\ [][NextReader]_vars


\* the threads that have not finished
Alive(threads) == {t \in 1..Len(threads) : threads[t].pc # "finished"}

\* the data of the commands a processor thread holds, and of those on the queue
HeldData ==
    [k \in 1..Len(SelectSeq(last.processors, LAMBDA th : th.pc = "process")) |->
        SelectSeq(last.processors, LAMBDA th : th.pc = "process")[k].cmd.data]
QueueData == [k \in 1..Len(last.queue) |-> last.queue[k].data]

\* C28: at most one reader thread and one processor thread run at any time,
\* and while no processing raised, the Results emitted are those of the first
\* cards put on the queue, in the order of the puts and each once; the other
\* cards put are the one the processor holds and those on the queue.
C28_SingleConsumerFifo ==
    /\ Cardinality(Alive(last.readers)) <= 1
    /\ Cardinality(Alive(last.processors)) <= 1
    /\ last.errors = 0 =>
          /\ Len(results) <= Len(last.enqueued)
          /\ \A k \in 1..Len(results) :
                 results[k] = process_card_data(settings.processing_mode = "trailo",
                                                last.enqueued[k])
          /\ SubSeq(last.enqueued, Len(results) + 1, Len(last.enqueued))
                 = HeldData \o QueueData

\* two cards were put and emitted in their order, the second after a stop and
\* a second start
C28_Witness ==
    /\ last.starts = 2
    /\ last.errors = 0
    /\ Len(last.enqueued) = 2
    /\ last.enqueued[1] # last.enqueued[2]
    /\ Len(results) = 2
    /\ last.processor_thread = 1 /\ Len(last.processors) = 1

\* the cards whose data was put on the queue
EnqueuedCards == {k \in 1..MaxCards : \E i \in 1..Len(last.enqueued) : last.enqueued[i] = CardData(k)}

\* a step of reader thread t that is not a start of the client
ReaderStep(t) ==
    /\ last'.starts = last.starts
    /\ t <= Len(last.readers)
    /\ last'.readers[t].pc # last.readers[t].pc

\* C30: a card is acknowledged only after its data was put on the queue; when
\* the card is not connected after the read, or the read or the put raises,
\* nothing is put and nothing acknowledged and the thread is back at its
\* loop; the thread leaves the loop only at the loop test with the stop event
\* set.
C30_AckOnlyAfterPut ==
    /\ [](last.acked \subseteq EnqueuedCards)
    /\ [][\A t \in 1..MaxStarts :
            ReaderStep(t) =>
              /\ (\/ last.readers[t].pc = "read" /\ last'.readers[t].pc # "connected"
                  \/ last.readers[t].pc = "connected"
                        /\ last.station # last.readers[t].card
                  \/ last.readers[t].pc = "put" /\ last'.readers[t].pc # "ack") =>
                     /\ last'.readers[t].pc = "loop"
                     /\ last'.enqueued = last.enqueued
                     /\ last'.acked = last.acked
              /\ last'.acked # last.acked =>
                     /\ last.readers[t].pc = "ack"
                     /\ last.readers[t].card \in EnqueuedCards
                     /\ last'.acked = last.acked \cup {last.readers[t].card}
              /\ last'.readers[t].pc = "finished" =>
                     \/ last.readers[t].pc = "run"
                     \/ last.readers[t].pc = "loop" /\ last.stop_event]_vars

\* the first card was put and acknowledged; the second was read and taken
\* away, it is neither on the queue nor acknowledged, and the thread polls on
C30_Witness ==
    /\ last.acked = {1}
    /\ EnqueuedCards = {1}
    /\ last.inserted = 2
    /\ last.station = 0
    /\ \E t \in 1..Len(last.readers) :
           last.readers[t].card = 2 /\ last.readers[t].pc = "poll"

====
